---- MODULE Spec2Model ----
(***************************************************************************)
(* tinydocx (src/src/index.ts): the ZIP container writer with its CRC-32,  *)
(* XML escaping, the DOCX and ODT builders and the markdown converters.    *)
(*                                                                         *)
(* Representation.                                                         *)
(*  - A JavaScript string is a sequence of characters, each character a    *)
(*    one-character TLA+ string ("a", "&"); a character outside ASCII is   *)
(*    written as the token "U+00E9" or "U+20AC", the backquote as         *)
(*    "U+0060".                                                            *)
(*  - A Uint8Array is a sequence of integers in 0..255.                    *)
(*  - A JavaScript number that takes part in 32-bit bitwise arithmetic is  *)
(*    a record [hi, lo] standing for hi * 65536 + lo with lo in 0..65535;  *)
(*    hi is negative for a negative int32 (TLC integers are 32 bits wide). *)
(***************************************************************************)
EXTENDS Integers, Sequences, FiniteSets, TLC

VARIABLES
  call,            \* the entry point under way: [fn, arg]
  ret,             \* the value returned by the last call (None before it)
  mainCtx,         \* docx(): BuildContext of the main body
  headerCtx,       \* docx(): BuildContext of the header
  footerCtx,       \* docx(): BuildContext of the footer
  docPrIdCounter,  \* docx(): the counter object shared by the three contexts
  hasHeader,       \* docx(): header() was called
  hasFooter,       \* docx(): footer() was called
  odtCtx           \* odt(): its BuildContext

vars == <<call, ret, mainCtx, headerCtx, footerCtx, docPrIdCounter,
          hasHeader, hasFooter, odtCtx>>

None == [none |-> TRUE]

(***************************************************************************)
(* Sequences                                                               *)
(***************************************************************************)
RECURSIVE Flatten(_)
Flatten(ss) == IF ss = <<>> THEN <<>> ELSE Head(ss) \o Flatten(Tail(ss))

RECURSIVE SumSeq(_)
SumSeq(ns) == IF ns = <<>> THEN 0 ELSE Head(ns) + SumSeq(Tail(ns))

Slice(s, from, len) == [k \in 1..len |-> s[from + k]]

\* All sequences over S of length 0..n.
SeqsUpTo(S, n) == UNION {[1..k -> S] : k \in 0..n}

(***************************************************************************)
(* Characters and TextEncoder                                              *)
(***************************************************************************)
\* The printable ASCII characters, code points 32..126, in order.
Ascii == <<" ", "!", "\"", "#", "$", "%", "&", "'", "(", ")", "*", "+", ",",
           "-", ".", "/", "0", "1", "2", "3", "4", "5", "6", "7", "8", "9",
           ":", ";", "<", "=", ">", "?", "@", "A", "B", "C", "D", "E", "F",
           "G", "H", "I", "J", "K", "L", "M", "N", "O", "P", "Q", "R", "S",
           "T", "U", "V", "W", "X", "Y", "Z", "[", "\\", "]", "^", "_", "U+0060",
           "a", "b", "c", "d", "e", "f", "g", "h", "i", "j", "k", "l", "m",
           "n", "o", "p", "q", "r", "s", "t", "u", "v", "w", "x", "y", "z",
           "{", "|", "}", "~">>

\* The code point of every printable ASCII character, tabulated.
AsciiCode ==
  [c \in {Ascii[i] : i \in 1..Len(Ascii)} |->
     31 + (CHOOSE i \in 1..Len(Ascii) : Ascii[i] = c)]

CodePoint(c) ==
  CASE c = "U+00E9" -> 233
    [] c = "U+20AC" -> 8364
    [] c = "\n" -> 10
    [] c = "\t" -> 9
    [] OTHER -> AsciiCode[c]

\* UTF-8 of one code point below 65536 (what TextEncoder writes for it).
Utf8(cp) ==
  IF cp < 128 THEN <<cp>>
  ELSE IF cp < 2048 THEN <<192 + (cp \div 64), 128 + (cp % 64)>>
  ELSE <<224 + (cp \div 4096), 128 + ((cp \div 64) % 64), 128 + (cp % 64)>>

\* new TextEncoder().encode(str)
TextEncode(str) == Flatten([k \in 1..Len(str) |-> Utf8(CodePoint(str[k]))])

\* String(n) for an integer n >= 0: its decimal digits.
RECURSIVE Digits(_)
Digits(n) ==
  IF n < 10 THEN <<Ascii[17 + n]>>
  ELSE Digits(n \div 10) \o <<Ascii[17 + (n % 10)]>>

(***************************************************************************)
(* 32-bit arithmetic of the JavaScript bitwise operators                   *)
(***************************************************************************)
Word(hi, lo) == [hi |-> hi, lo |-> lo]

\* ToUint32: the value modulo 2^32, in 0..2^32-1.
ToUint32(w) == Word(w.hi % 65536, w.lo)

\* ToInt32: the value modulo 2^32, in -2^31..2^31-1.
ToInt32(w) ==
  LET h == w.hi % 65536 IN Word(IF h >= 32768 THEN h - 65536 ELSE h, w.lo)

\* Bitwise exclusive or of two integers in 0..2^n-1.
RECURSIVE XorBits(_, _, _)
XorBits(a, b, n) ==
  IF n = 0 THEN 0
  ELSE ((a + b) % 2) + 2 * XorBits(a \div 2, b \div 2, n - 1)

\* The exclusive or of two 4-bit digits, tabulated.
XorDigit == [a \in 0..15 |-> [b \in 0..15 |-> XorBits(a, b, 4)]]

\* Bitwise exclusive or of two integers in 0..65535, digit by digit.
Xor16(a, b) ==
  XorDigit[a % 16][b % 16]
    + 16 * XorDigit[(a \div 16) % 16][(b \div 16) % 16]
    + 256 * XorDigit[(a \div 256) % 16][(b \div 256) % 16]
    + 4096 * XorDigit[a \div 4096][b \div 4096]

\* Bitwise and of two integers in 0..2^n-1.
RECURSIVE AndBits(_, _, _)
AndBits(a, b, n) ==
  IF n = 0 \/ a = 0 \/ b = 0 THEN 0
  ELSE ((a % 2) * (b % 2)) + 2 * AndBits(a \div 2, b \div 2, n - 1)

\* a ^ b: both operands through ToInt32, the result an int32.
JsXor(a, b) ==
  LET x == ToUint32(a)
      y == ToUint32(b)
  IN ToInt32(Word(Xor16(x.hi, y.hi), Xor16(x.lo, y.lo)))

\* a & b: both operands through ToInt32, the result an int32.
JsAnd(a, b) ==
  LET x == ToUint32(a)
      y == ToUint32(b)
  IN ToInt32(Word(AndBits(x.hi, y.hi, 16), AndBits(x.lo, y.lo, 16)))

\* a >>> n for 0 <= n < 16: the operand through ToUint32, zero-filled.
JsUshr(a, n) ==
  LET x == ToUint32(a)
      p == 2 ^ n
  IN Word(x.hi \div p, (x.lo \div p) + (x.hi % p) * (65536 \div p))

(***************************************************************************)
(* crc32                                                                   *)
(***************************************************************************)
CrcInit == Word(65535, 65535)          \* 0xffffffff
CrcPoly == Word(60856, 33568)          \* 0xedb88320
CrcZero == Word(0, 0)
CrcOne == Word(0, 1)

\* One pass of the inner loop body: crc = (crc >>> 1) ^ (crc & 1 ? POLY : 0)
crc32Bit(crc) ==
  JsXor(JsUshr(crc, 1), IF JsAnd(crc, CrcOne) # CrcZero THEN CrcPoly ELSE CrcZero)

\* The inner loop, for (let j = 0; j < 8; j++), on its variables [j, crc].
RECURSIVE crc32Inner(_)
crc32Inner(st) ==
  IF st.j >= 8 THEN st.crc
  ELSE crc32Inner([j |-> st.j + 1, crc |-> crc32Bit(st.crc)])

\* The outer loop, for (let i = 0; i < data.length; i++), on its variables
\* [i, crc] (i counts from 1 here): crc ^= data[i], then the inner loop.
RECURSIVE crc32Outer(_, _)
crc32Outer(data, st) ==
  IF st.i > Len(data) THEN st.crc
  ELSE crc32Outer(data,
         [i |-> st.i + 1,
          crc |-> crc32Inner([j |-> 0, crc |-> JsXor(st.crc, Word(0, data[st.i]))])])

\* A crc32 whose last line lacks the ">>> 0".
crc32FinalSigned(crc) == JsXor(crc, CrcInit)

\* return (crc ^ 0xffffffff) >>> 0
crc32Final(crc) == JsUshr(JsXor(crc, CrcInit), 0)

crc32(data) == crc32Final(crc32Outer(data, [i |-> 1, crc |-> CrcInit]))

(***************************************************************************)
(* escapeXml                                                               *)
(***************************************************************************)
\* str.replace(/c/g, repl) for a one-character pattern c.
ReplaceAll(str, c, repl) ==
  Flatten([k \in 1..Len(str) |-> IF str[k] = c THEN repl ELSE <<str[k]>>])

\* An escapeXml that replaces the ampersand last.
escapeXmlAmpLast(str) ==
  ReplaceAll(
    ReplaceAll(
      ReplaceAll(
        ReplaceAll(
          ReplaceAll(str, "<", <<"&", "l", "t", ";">>),
          ">", <<"&", "g", "t", ";">>),
        "\"", <<"&", "q", "u", "o", "t", ";">>),
      "'", <<"&", "a", "p", "o", "s", ";">>),
    "&", <<"&", "a", "m", "p", ";">>)

escapeXml(str) ==
  ReplaceAll(
    ReplaceAll(
      ReplaceAll(
        ReplaceAll(
          ReplaceAll(str, "&", <<"&", "a", "m", "p", ";">>),
          "<", <<"&", "l", "t", ";">>),
        ">", <<"&", "g", "t", ";">>),
      "\"", <<"&", "q", "u", "o", "t", ";">>),
    "'", <<"&", "a", "p", "o", "s", ";">>)

(***************************************************************************)
(* createZip                                                               *)
(***************************************************************************)
\* DataView.setUint16(_, n, true): the low 16 bits of n, little-endian.
SetUint16(n) == <<n % 256, (n \div 256) % 256>>

\* DataView.setUint32(_, n, true) for an integer 0 <= n < 2^31.
SetUint32(n) ==
  <<n % 256, (n \div 256) % 256, (n \div 65536) % 256, (n \div 16777216) % 256>>

\* DataView.setUint32(_, w, true) for a 32-bit word [hi, lo].
SetUint32W(w) ==
  LET u == ToUint32(w)
  IN <<u.lo % 256, u.lo \div 256, u.hi % 256, u.hi \div 256>>

SigLocal == Word(1027, 19280)      \* 0x04034b50
SigCentral == Word(513, 19280)     \* 0x02014b50
SigEnd == Word(1541, 19280)        \* 0x06054b50

\* The local file header of one file: 30 bytes and the name.
ZipLocalHeader(nameBytes, data, crc) ==
  SetUint32W(SigLocal) \o SetUint16(20) \o SetUint16(0) \o SetUint16(0)
    \o SetUint16(0) \o SetUint16(0) \o SetUint32W(crc)
    \o SetUint32(Len(data)) \o SetUint32(Len(data))
    \o SetUint16(Len(nameBytes)) \o SetUint16(0) \o nameBytes

\* offset += data.length, the header length forgotten.
ZipAdvanceDataOnly(offset, header, data) == offset + Len(data)

\* offset += header.length + file.data.length
ZipAdvance(offset, header, data) == offset + Len(header) + Len(data)

\* The first loop, for (const file of files), on [k, entries, parts, offset].
RECURSIVE ZipLocalLoop(_, _)
ZipLocalLoop(files, st) ==
  IF st.k > Len(files) THEN st
  ELSE
    LET file == files[st.k]
        nameBytes == TextEncode(file.name)
        crc == crc32(file.data)
        header == ZipLocalHeader(nameBytes, file.data, crc)
    IN ZipLocalLoop(files,
         [k |-> st.k + 1,
          entries |-> Append(st.entries,
                        [name |-> nameBytes, data |-> file.data,
                         crc |-> crc, offset |-> st.offset]),
          parts |-> st.parts \o <<header, file.data>>,
          offset |-> ZipAdvance(st.offset, header, file.data)])

\* The central directory record of one entry: 46 bytes and the name.
ZipCentralRecord(entry) ==
  SetUint32W(SigCentral) \o SetUint16(20) \o SetUint16(20) \o SetUint16(0)
    \o SetUint16(0) \o SetUint16(0) \o SetUint16(0) \o SetUint32W(entry.crc)
    \o SetUint32(Len(entry.data)) \o SetUint32(Len(entry.data))
    \o SetUint16(Len(entry.name)) \o SetUint16(0) \o SetUint16(0)
    \o SetUint16(0) \o SetUint16(0) \o SetUint32(0)
    \o SetUint32(entry.offset) \o entry.name

\* The second loop, for (const entry of entries), on [k, parts, offset].
RECURSIVE ZipCentralLoop(_, _)
ZipCentralLoop(entries, st) ==
  IF st.k > Len(entries) THEN st
  ELSE
    LET central == ZipCentralRecord(entries[st.k])
    IN ZipCentralLoop(entries,
         [k |-> st.k + 1,
          parts |-> Append(st.parts, central),
          offset |-> st.offset + Len(central)])

\* An end record that counts the entries of the central directory twice over.
ZipEndRecordMiscount(count, size, centralDirOffset) ==
  SetUint32W(SigEnd) \o SetUint16(0) \o SetUint16(0)
    \o SetUint16(count) \o SetUint16(count + 1)
    \o SetUint32(size) \o SetUint32(centralDirOffset) \o SetUint16(0)

\* The end-of-central-directory record: 22 bytes.
ZipEndRecord(count, size, centralDirOffset) ==
  SetUint32W(SigEnd) \o SetUint16(0) \o SetUint16(0)
    \o SetUint16(count) \o SetUint16(count)
    \o SetUint32(size) \o SetUint32(centralDirOffset) \o SetUint16(0)

createZip(files) ==
  LET loc == ZipLocalLoop(files, [k |-> 1, entries |-> <<>>, parts |-> <<>>, offset |-> 0])
      centralDirOffset == loc.offset
      cen == ZipCentralLoop(loc.entries,
                            [k |-> 1, parts |-> loc.parts, offset |-> loc.offset])
      endRecord == ZipEndRecord(Len(loc.entries), cen.offset - centralDirOffset,
                                centralDirOffset)
  IN Flatten(Append(cen.parts, endRecord))

(***************************************************************************)
(* Options and document elements                                           *)
(*                                                                         *)
(* A TextOptions object is a function from the keys it holds to their      *)
(* values; an absent opts argument holds no key (opts?.k is undefined in   *)
(* both cases, and the renderers read options only through opts?.k).       *)
(* Strings that are copied into the XML unescaped (font, colour, sizes)    *)
(* are kept as given.  A generated XML fragment is a record that names the *)
(* element and holds its attributes and children in document order.        *)
(***************************************************************************)
NoOpts == <<>>

\* opts?.k is truthy, for a boolean, a string (non-empty) or a number (non-zero).
Flag(opts, k) == k \in DOMAIN opts /\ opts[k] = TRUE
Str(opts, k) == k \in DOMAIN opts /\ opts[k] # <<>>
Num(opts, k) == k \in DOMAIN opts /\ opts[k] # 0

\* { ...opts, k: v }
With(opts, k, v) == [x \in (DOMAIN opts) \cup {k} |-> IF x = k THEN v ELSE opts[x]]

\* str.replace(c, '') for a one-character string c: the first occurrence only.
RemoveFirst(str, c) ==
  IF \E k \in 1..Len(str) : str[k] = c
  THEN LET k == CHOOSE i \in 1..Len(str) : str[i] = c /\ \A j \in 1..(i - 1) : str[j] # c
       IN SubSeq(str, 1, k - 1) \o SubSeq(str, k + 1, Len(str))
  ELSE str

\* str.split('\n'), on [k, cur, out].
RECURSIVE SplitLoop(_, _, _)
SplitLoop(str, sep, st) ==
  IF st.k > Len(str) THEN Append(st.out, st.cur)
  ELSE IF str[st.k] = sep
       THEN SplitLoop(str, sep, [k |-> st.k + 1, cur |-> <<>>, out |-> Append(st.out, st.cur)])
       ELSE SplitLoop(str, sep, [k |-> st.k + 1, cur |-> Append(st.cur, str[st.k]), out |-> st.out])

Split(str, sep) == SplitLoop(str, sep, [k |-> 1, cur |-> <<>>, out |-> <<>>])

\* The items of a sequence of optional items that are present.
Present(items) == Flatten(items)
If(c, item) == IF c THEN <<item>> ELSE <<>>

(***************************************************************************)
(* detectImageType                                                         *)
(***************************************************************************)
\* data[i] === v, for i counted from 0: false where data has no such index.
ByteIs(data, i, v) == i + 1 <= Len(data) /\ data[i + 1] = v

\* detectImageType reading the WEBP tag right after RIFF.
detectImageTypeWebpAt4(data) ==
  IF ByteIs(data, 0, 137) /\ ByteIs(data, 1, 80) THEN <<"p", "n", "g">>
  ELSE IF ByteIs(data, 0, 255) /\ ByteIs(data, 1, 216) THEN <<"j", "p", "e", "g">>
  ELSE IF ByteIs(data, 0, 71) /\ ByteIs(data, 1, 73) THEN <<"g", "i", "f">>
  ELSE IF /\ ByteIs(data, 0, 82) /\ ByteIs(data, 1, 73)
          /\ ByteIs(data, 2, 70) /\ ByteIs(data, 3, 70)
          /\ ByteIs(data, 4, 87) /\ ByteIs(data, 5, 69)
          /\ ByteIs(data, 6, 66) /\ ByteIs(data, 7, 80) THEN <<"w", "e", "b", "p">>
  ELSE <<"p", "n", "g">>

detectImageType(data) ==
  IF ByteIs(data, 0, 137) /\ ByteIs(data, 1, 80) THEN <<"p", "n", "g">>
  ELSE IF ByteIs(data, 0, 255) /\ ByteIs(data, 1, 216) THEN <<"j", "p", "e", "g">>
  ELSE IF ByteIs(data, 0, 71) /\ ByteIs(data, 1, 73) THEN <<"g", "i", "f">>
  ELSE IF /\ ByteIs(data, 0, 82) /\ ByteIs(data, 1, 73)
          /\ ByteIs(data, 2, 70) /\ ByteIs(data, 3, 70)
          /\ ByteIs(data, 8, 87) /\ ByteIs(data, 9, 69)
          /\ ByteIs(data, 10, 66) /\ ByteIs(data, 11, 80) THEN <<"w", "e", "b", "p">>
  ELSE <<"p", "n", "g">>

(***************************************************************************)
(* createContext: the methods of a DocContext on a BuildContext.  Each     *)
(* takes the pair [ctx, docPr] (the context and the counter object its     *)
(* nextDocPrId refers to) and returns the pair after the call.             *)
(***************************************************************************)
rIdOf(n) == <<"r", "I", "d">> \o Digits(n)

Push(cx, el) == [cx EXCEPT !.ctx.elements = Append(@, el)]

ctxHeading(cx, str, level) == Push(cx, [type |-> "heading", text |-> str, level |-> level])

ctxParagraph(cx, str, opts) == Push(cx, [type |-> "paragraph", text |-> str, opts |-> opts])

ctxText(cx, str, size, opts) ==
  Push(cx, [type |-> "text", text |-> str, size |-> size, opts |-> opts])

ctxLineBreak(cx) == Push(cx, [type |-> "lineBreak"])

ctxHorizontalRule(cx) == Push(cx, [type |-> "horizontalRule"])

ctxList(cx, items, ordered) ==
  Push(cx, [type |-> "list", items |-> items, ordered |-> ordered])

ctxTable(cx, rows, opts) == Push(cx, [type |-> "table", rows |-> rows, opts |-> opts])

ctxLink(cx, text, url, opts) ==
  LET rId == rIdOf(cx.ctx.nextRId)
  IN [cx EXCEPT !.ctx.nextRId = @ + 1,
                !.ctx.hyperlinks = Append(@, [url |-> url, rId |-> rId]),
                !.ctx.elements = Append(@, [type |-> "link", text |-> text, url |-> url,
                                            opts |-> opts, rId |-> rId])]

\* An image() that numbers the drawing by the images of its own context.
ctxImagePerContext(cx, data, opts) ==
  LET rId == rIdOf(cx.ctx.nextRId)
      docPrId == Len(cx.ctx.images) + 1
      ext == detectImageType(data)
  IN [cx EXCEPT !.ctx.nextRId = @ + 1,
                !.docPr = @ + 1,
                !.ctx.images = Append(@, [data |-> data, rId |-> rId, ext |-> ext]),
                !.ctx.elements = Append(@, [type |-> "image", data |-> data, opts |-> opts,
                                            rId |-> rId, docPrId |-> docPrId])]

ctxImage(cx, data, opts) ==
  LET rId == rIdOf(cx.ctx.nextRId)
      docPrId == cx.docPr
      ext == detectImageType(data)
  IN [cx EXCEPT !.ctx.nextRId = @ + 1,
                !.docPr = @ + 1,
                !.ctx.images = Append(@, [data |-> data, rId |-> rId, ext |-> ext]),
                !.ctx.elements = Append(@, [type |-> "image", data |-> data, opts |-> opts,
                                            rId |-> rId, docPrId |-> docPrId])]

ctxPageNumber(cx) == Push(cx, [type |-> "pageNumber"])

\* One call of a DocContext method, op = [m, ...arguments].
ctxCall(cx, op) ==
  CASE op.m = "heading" -> ctxHeading(cx, op.str, op.level)
    [] op.m = "paragraph" -> ctxParagraph(cx, op.str, op.opts)
    [] op.m = "text" -> ctxText(cx, op.str, op.size, op.opts)
    [] op.m = "lineBreak" -> ctxLineBreak(cx)
    [] op.m = "horizontalRule" -> ctxHorizontalRule(cx)
    [] op.m = "list" -> ctxList(cx, op.items, op.ordered)
    [] op.m = "table" -> ctxTable(cx, op.rows, op.opts)
    [] op.m = "link" -> ctxLink(cx, op.text, op.url, op.opts)
    [] op.m = "image" -> ctxImage(cx, op.data, op.opts)
    [] op.m = "pageNumber" -> ctxPageNumber(cx)

\* The callback fn(createContext(ctx)): the calls of ops in order, on [k, cx].
RECURSIVE ctxCalls(_, _)
ctxCalls(ops, st) ==
  IF st.k > Len(ops) THEN st.cx
  ELSE ctxCalls(ops, [k |-> st.k + 1, cx |-> ctxCall(st.cx, ops[st.k])])

runCallback(ctx, docPr, ops) == ctxCalls(ops, [k |-> 1, cx |-> [ctx |-> ctx, docPr |-> docPr]])

(***************************************************************************)
(* buildDocxBody                                                           *)
(***************************************************************************)
Undefined == [undefined |-> TRUE]

CourierNew == <<"C", "o", "u", "r", "i", "e", "r", " ", "N", "e", "w">>

\* buildDocxRunProps(opts, size): the children of w:rPr in order; none when the
\* function returns ''.  size is 0 when the argument is absent.
buildDocxRunProps(opts, size) ==
  LET font == IF Flag(opts, "code") THEN CourierNew
              ELSE IF "font" \in DOMAIN opts THEN opts.font ELSE <<>>
      sz == IF size # 0 THEN size ELSE IF "size" \in DOMAIN opts THEN opts.size ELSE 0
  IN Present(<<
       If(font # <<>>, [x |-> "w:rFonts", ascii |-> font, hAnsi |-> font]),
       If(sz # 0, [x |-> "w:sz", val |-> sz * 2]),
       If(sz # 0, [x |-> "w:szCs", val |-> sz * 2]),
       If(Flag(opts, "bold"), [x |-> "w:b"]),
       If(Flag(opts, "italic"), [x |-> "w:i"]),
       If(Flag(opts, "underline"), [x |-> "w:u", val |-> "single"]),
       If(Flag(opts, "strikethrough"), [x |-> "w:strike"]),
       If(Flag(opts, "code"), [x |-> "w:shd", fill |-> "E8E8E8"]),
       If(Str(opts, "color"), [x |-> "w:color", val |-> RemoveFirst(opts.color, "#")])
     >>)

getAlignment(align) ==
  IF align = "center" THEN "center"
  ELSE IF align = "right" THEN "right"
  ELSE IF align = "justify" THEN "both"
  ELSE "left"

AlignOf(opts) == IF "align" \in DOMAIN opts THEN opts.align ELSE "undefined"

\* <w:r>{rPr}<w:t>{text}</w:t></w:r>, the text already escaped.
DocxRun(rPr, text) == [x |-> "w:r", rPr |-> rPr, t |-> text]

\* <w:p><w:pPr>{pPr}</w:pPr>{content}</w:p>
DocxP(pPr, content) == [x |-> "w:p", pPr |-> pPr, content |-> content]

\* SIZES[level]: undefined outside the keys 1, 2, 3.
DocxHeadingSize(level) ==
  CASE level = 1 -> 48 [] level = 2 -> 36 [] level = 3 -> 28 [] OTHER -> Undefined

\* The runs of a rich paragraph, list item or table cell.
DocxRuns(runs) ==
  [k \in 1..Len(runs) |->
     DocxRun(buildDocxRunProps(runs[k].opts, 0), escapeXml(runs[k].text))]

\* buildListItems(items, ordered, level) of the richList branch.
RECURSIVE buildListItems(_, _, _)
\* The items of a sub-list emitted at the level of their parent.
buildListItemsFlat(items, ordered, level) ==
  Flatten([k \in 1..Len(items) |->
    <<DocxP([numPr |-> [ilvl |-> level, numId |-> IF ordered THEN 2 ELSE 1]],
            DocxRuns(items[k].runs))>>
    \o (IF items[k].children # Undefined
        THEN buildListItems(items[k].children.items, items[k].children.ordered, level)
        ELSE <<>>)])

buildListItems(items, ordered, level) ==
  Flatten([k \in 1..Len(items) |->
    <<DocxP([numPr |-> [ilvl |-> level, numId |-> IF ordered THEN 2 ELSE 1]],
            DocxRuns(items[k].runs))>>
    \o (IF items[k].children # Undefined
        THEN buildListItems(items[k].children.items, items[k].children.ordered, level + 1)
        ELSE <<>>)])

\* The rows of a table or richTable; cell(c) renders the paragraph of one cell.
DocxTable(el, cell(_)) ==
  LET opts == IF "opts" \in DOMAIN el THEN el.opts ELSE NoOpts
      widths == IF "colWidths" \in DOMAIN opts THEN opts.colWidths ELSE <<>>
      hasWidths == "colWidths" \in DOMAIN opts
  IN [x |-> "w:tbl",
      grid |-> IF hasWidths THEN widths ELSE Undefined,
      rows |-> [r \in 1..Len(el.rows) |->
                 [i \in 1..Len(el.rows[r]) |->
                    [x |-> "w:tc",
                     tcW |-> IF hasWidths /\ i <= Len(widths) /\ widths[i] # 0
                             THEN widths[i] ELSE Undefined,
                     p |-> cell(el.rows[r][i])]]]]

\* The XML that one element adds to the body.
DocxElement(el) ==
  CASE el.type = "heading" ->
         <<DocxP([pStyle |-> <<"Heading", el.level>>],
                 <<DocxRun(<<[x |-> "w:b"],
                             [x |-> "w:sz", val |-> DocxHeadingSize(el.level)],
                             [x |-> "w:szCs", val |-> DocxHeadingSize(el.level)]>>,
                           escapeXml(el.text))>>)>>
    [] el.type = "paragraph" ->
         <<DocxP([jc |-> getAlignment(AlignOf(el.opts))],
                 <<DocxRun(buildDocxRunProps(el.opts, 0), escapeXml(el.text))>>)>>
    [] el.type = "text" ->
         <<DocxP([jc |-> getAlignment(AlignOf(el.opts))],
                 <<DocxRun(buildDocxRunProps(el.opts, el.size), escapeXml(el.text))>>)>>
    [] el.type = "lineBreak" -> <<[x |-> "w:p"]>>
    [] el.type = "horizontalRule" -> <<DocxP([pBdr |-> "bottom"], <<>>)>>
    [] el.type = "list" ->
         [k \in 1..Len(el.items) |->
            DocxP([numPr |-> [ilvl |-> 0, numId |-> IF el.ordered THEN 2 ELSE 1]],
                  <<DocxRun(<<>>, escapeXml(el.items[k]))>>)]
    [] el.type = "table" ->
         <<DocxTable(el, LAMBDA c : <<DocxRun(<<>>, escapeXml(c))>>)>>
    [] el.type = "link" ->
         <<[x |-> "w:p",
            content |-> <<[x |-> "w:hyperlink", rId |-> el.rId,
                           content |-> <<DocxRun(
                             buildDocxRunProps(
                               With(With(el.opts, "color",
                                         IF Str(el.opts, "color") THEN el.opts.color
                                         ELSE <<"0", "5", "6", "3", "C", "1">>),
                                    "underline", TRUE), 0),
                             escapeXml(el.text))>>]>>]>>
    [] el.type = "image" ->
         <<[x |-> "w:p",
            content |-> <<[x |-> "w:drawing",
                           cx |-> el.opts.width * 914400,
                           cy |-> el.opts.height * 914400,
                           docPr |-> el.docPrId,
                           cNvPr |-> el.docPrId,
                           embed |-> el.rId]>>]>>
    [] el.type = "pageNumber" ->
         <<[x |-> "w:p",
            content |-> <<[x |-> "w:fldChar", fldCharType |-> "begin"],
                          [x |-> "w:instrText", t |-> <<" ", "P", "A", "G", "E", " ">>],
                          [x |-> "w:fldChar", fldCharType |-> "separate"],
                          DocxRun(<<>>, <<"1">>),
                          [x |-> "w:fldChar", fldCharType |-> "end"]>>]>>
    [] el.type = "richParagraph" ->
         <<DocxP([jc |-> getAlignment(IF "align" \in DOMAIN el THEN el.align
                                      ELSE "undefined")],
                 DocxRuns(el.runs))>>
    [] el.type = "richList" -> buildListItems(el.items, el.ordered, 0)
    [] el.type = "richTable" -> <<DocxTable(el, LAMBDA c : DocxRuns(c))>>
    [] el.type = "blockquote" ->
         <<DocxP([ind |-> 720, pBdr |-> "left"],
                 [k \in 1..Len(el.runs) |->
                    DocxRun(buildDocxRunProps(
                              With(el.runs[k].opts, "color",
                                   IF Str(el.runs[k].opts, "color") THEN el.runs[k].opts.color
                                   ELSE <<"#", "6", "6", "6", "6", "6", "6">>), 0),
                            escapeXml(el.runs[k].text))])>>
    [] el.type = "codeBlock" ->
         LET lines == Split(el.code, "\n")
         IN [k \in 1..Len(lines) |->
               DocxP([shd |-> "F5F5F5"],
                     <<DocxRun(<<[x |-> "w:rFonts", ascii |-> CourierNew, hAnsi |-> CourierNew]>>,
                               escapeXml(lines[k]))>>)]

buildDocxBody(elements) == Flatten([k \in 1..Len(elements) |-> DocxElement(elements[k])])

(***************************************************************************)
(* The names of the archive entries                                        *)
(***************************************************************************)
\* '[Content_Types].xml'
NameContentTypes ==
  <<"[", "C", "o", "n", "t", "e", "n", "t", "_", "T", "y", "p", "e", "s",
      "]", ".", "x", "m", "l">>

\* '_rels/.rels'
NameRootRels ==
  <<"_", "r", "e", "l", "s", "/", ".", "r", "e", "l", "s">>

\* 'word/_rels/document.xml.rels'
NameDocumentRels ==
  <<"w", "o", "r", "d", "/", "_", "r", "e", "l", "s", "/", "d", "o", "c",
      "u", "m", "e", "n", "t", ".", "x", "m", "l", ".", "r", "e", "l",
      "s">>

\* 'word/document.xml'
NameDocument ==
  <<"w", "o", "r", "d", "/", "d", "o", "c", "u", "m", "e", "n", "t", ".",
      "x", "m", "l">>

\* 'word/styles.xml'
NameStyles ==
  <<"w", "o", "r", "d", "/", "s", "t", "y", "l", "e", "s", ".", "x", "m",
      "l">>

\* 'word/numbering.xml'
NameNumbering ==
  <<"w", "o", "r", "d", "/", "n", "u", "m", "b", "e", "r", "i", "n", "g",
      ".", "x", "m", "l">>

\* 'word/header1.xml'
NameHeader ==
  <<"w", "o", "r", "d", "/", "h", "e", "a", "d", "e", "r", "1", ".", "x",
      "m", "l">>

\* 'word/_rels/header1.xml.rels'
NameHeaderRels ==
  <<"w", "o", "r", "d", "/", "_", "r", "e", "l", "s", "/", "h", "e", "a",
      "d", "e", "r", "1", ".", "x", "m", "l", ".", "r", "e", "l", "s">>

\* 'word/footer1.xml'
NameFooter ==
  <<"w", "o", "r", "d", "/", "f", "o", "o", "t", "e", "r", "1", ".", "x",
      "m", "l">>

\* 'word/_rels/footer1.xml.rels'
NameFooterRels ==
  <<"w", "o", "r", "d", "/", "_", "r", "e", "l", "s", "/", "f", "o", "o",
      "t", "e", "r", "1", ".", "x", "m", "l", ".", "r", "e", "l", "s">>

\* 'word/media/image'
NameMediaPrefix ==
  <<"w", "o", "r", "d", "/", "m", "e", "d", "i", "a", "/", "i", "m", "a",
      "g", "e">>

\* 'mimetype'
NameMimetype ==
  <<"m", "i", "m", "e", "t", "y", "p", "e">>

\* 'META-INF/manifest.xml'
NameManifest ==
  <<"M", "E", "T", "A", "-", "I", "N", "F", "/", "m", "a", "n", "i", "f",
      "e", "s", "t", ".", "x", "m", "l">>

\* 'content.xml'
NameContent ==
  <<"c", "o", "n", "t", "e", "n", "t", ".", "x", "m", "l">>

\* 'styles.xml'
NameOdtStyles ==
  <<"s", "t", "y", "l", "e", "s", ".", "x", "m", "l">>

\* 'application/vnd.oasis.opendocument.text'
ODT_MIMETYPE ==
  <<"a", "p", "p", "l", "i", "c", "a", "t", "i", "o", "n", "/", "v", "n",
      "d", ".", "o", "a", "s", "i", "s", ".", "o", "p", "e", "n", "d",
      "o", "c", "u", "m", "e", "n", "t", ".", "t", "e", "x", "t">>

(***************************************************************************)
(* The XML parts of a DOCX package                                         *)
(***************************************************************************)
\* A document whose section properties never refer to the footer.
generateDocxDocumentNoFooter(elements, headerRId, footerRId) ==
  [x |-> "w:document",
   body |-> buildDocxBody(elements),
   sectPr |-> Present(<<
     If(headerRId # Undefined, [x |-> "w:headerReference", rId |-> headerRId])>>)]

\* generateDocxDocument(elements, headerRId, footerRId)
generateDocxDocument(elements, headerRId, footerRId) ==
  [x |-> "w:document",
   body |-> buildDocxBody(elements),
   sectPr |-> Present(<<
     If(headerRId # Undefined, [x |-> "w:headerReference", rId |-> headerRId]),
     If(footerRId # Undefined, [x |-> "w:footerReference", rId |-> footerRId])>>)]

generateDocxHeader(elements, hasLinksOrImages) ==
  [x |-> "w:hdr", xmlnsR |-> hasLinksOrImages, body |-> buildDocxBody(elements)]

generateDocxFooter(elements, hasLinksOrImages) ==
  [x |-> "w:ftr", xmlnsR |-> hasLinksOrImages, body |-> buildDocxBody(elements)]

generateDocxStyles ==
  [x |-> "w:styles",
   styles |-> <<[styleId |-> "Normal"],
                [styleId |-> "Heading1", sz |-> 48],
                [styleId |-> "Heading2", sz |-> 36],
                [styleId |-> "Heading3", sz |-> 28]>>]

generateDocxNumbering ==
  [x |-> "w:numbering",
   abstractNums |-> <<[abstractNumId |-> 0, numFmt |-> "bullet"],
                      [abstractNumId |-> 1, numFmt |-> "decimal"]>>,
   nums |-> <<[numId |-> 1, abstractNumId |-> 0], [numId |-> 2, abstractNumId |-> 1]>>]

\* Array.from(new Set(xs)): the first occurrences, in order.
Distinct(xs) ==
  Flatten([k \in 1..Len(xs) |-> If(\A j \in 1..(k - 1) : xs[j] # xs[k], xs[k])])

ImageMime(ext) ==
  IF ext = <<"j", "p", "e", "g">> THEN "image/jpeg"
  ELSE IF ext = <<"g", "i", "f">> THEN "image/gif"
  ELSE "image/png"

generateDocxContentTypes(hasLists, hasHeader_, hasFooter_, imageExts) ==
  LET exts == Distinct(imageExts)
  IN [x |-> "Types",
      defaults |-> <<[Extension |-> <<"r", "e", "l", "s">>,
                      ContentType |-> "application/vnd.openxmlformats-package.relationships+xml"],
                     [Extension |-> <<"x", "m", "l">>, ContentType |-> "application/xml"]>>
                   \o [k \in 1..Len(exts) |->
                         [Extension |-> exts[k], ContentType |-> ImageMime(exts[k])]],
      overrides |-> Present(<<
        <<"/word/document.xml", "/word/styles.xml">>,
        If(hasLists, "/word/numbering.xml"),
        If(hasHeader_, "/word/header1.xml"),
        If(hasFooter_, "/word/footer1.xml")>>)]

\* The Relationship elements of the hyperlinks and images of one part.
LinkRels(hyperlinks) ==
  [k \in 1..Len(hyperlinks) |->
     [Id |-> hyperlinks[k].rId, Type |-> "hyperlink",
      Target |-> escapeXml(hyperlinks[k].url), TargetMode |-> "External"]]

\* Image targets numbered from 0 within every part: the imageOffset ignored.
ImageRelsNoOffset(images, imageOffset) ==
  [i \in 1..Len(images) |->
     [Id |-> images[i].rId, Type |-> "image",
      Target |-> <<"m", "e", "d", "i", "a", "/", "i", "m", "a", "g", "e">>
                 \o Digits(i) \o <<".">> \o images[i].ext]]

\* media/image${imageOffset + i + 1}.${ext}, for i from 0 (here i from 1).
ImageRels(images, imageOffset) ==
  [i \in 1..Len(images) |->
     [Id |-> images[i].rId, Type |-> "image",
      Target |-> <<"m", "e", "d", "i", "a", "/", "i", "m", "a", "g", "e">>
                 \o Digits(imageOffset + i) \o <<".">> \o images[i].ext]]

generateDocxRels(hasLists, hasHeader_, hasFooter_, hyperlinks, images, imageOffset) ==
  [x |-> "Relationships",
   rels |-> Present(<<
     <<[Id |-> rIdOf(1), Type |-> "styles",
        Target |-> <<"s", "t", "y", "l", "e", "s", ".", "x", "m", "l">>]>>,
     If(hasLists, [Id |-> rIdOf(2), Type |-> "numbering",
                   Target |-> <<"n", "u", "m", "b", "e", "r", "i", "n", "g", ".", "x", "m", "l">>]),
     If(hasHeader_, [Id |-> <<"r", "I", "d", "H", "e", "a", "d", "e", "r">>, Type |-> "header",
                     Target |-> <<"h", "e", "a", "d", "e", "r", "1", ".", "x", "m", "l">>]),
     If(hasFooter_, [Id |-> <<"r", "I", "d", "F", "o", "o", "t", "e", "r">>, Type |-> "footer",
                     Target |-> <<"f", "o", "o", "t", "e", "r", "1", ".", "x", "m", "l">>]),
     LinkRels(hyperlinks),
     ImageRels(images, imageOffset)>>)]

generatePartRels(hyperlinks, images, imageOffset) ==
  [x |-> "Relationships",
   rels |-> LinkRels(hyperlinks) \o ImageRels(images, imageOffset)]

DOCX_RELS ==
  [x |-> "Relationships",
   rels |-> <<[Id |-> rIdOf(1), Type |-> "officeDocument",
               Target |-> <<"w", "o", "r", "d", "/", "d", "o", "c", "u", "m", "e", "n", "t",
                            ".", "x", "m", "l">>]>>]

(***************************************************************************)
(* The XML parts of an ODT package                                         *)
(***************************************************************************)
ODT_MANIFEST ==
  [x |-> "manifest:manifest",
   entries |-> <<[fullPath |-> <<"/">>, mediaType |-> ODT_MIMETYPE],
                 [fullPath |-> NameContent, mediaType |-> <<"t", "e", "x", "t", "/", "x", "m", "l">>],
                 [fullPath |-> NameOdtStyles, mediaType |-> <<"t", "e", "x", "t", "/", "x", "m", "l">>]>>]

ODT_STYLES ==
  [x |-> "office:document-styles",
   styles |-> <<[name |-> "Standard", family |-> "paragraph"],
                [name |-> "Heading1", family |-> "paragraph", fontSize |-> 24, bold |-> TRUE],
                [name |-> "Heading2", family |-> "paragraph", fontSize |-> 18, bold |-> TRUE],
                [name |-> "Heading3", family |-> "paragraph", fontSize |-> 14, bold |-> TRUE]>>]

\* The attributes of style:text-properties, in order; sz is size || opts?.size
\* for a paragraph style, opts?.size for a text style (0: none).
OdtTextProps(opts, sz) ==
  LET font == IF Flag(opts, "code") THEN CourierNew
              ELSE IF "font" \in DOMAIN opts THEN opts.font ELSE <<>>
  IN Present(<<
       If(font # <<>>, [a |-> "style:font-name", val |-> font]),
       If(sz # 0, [a |-> "fo:font-size", val |-> sz]),
       If(Flag(opts, "bold"), [a |-> "fo:font-weight", val |-> "bold"]),
       If(Flag(opts, "italic"), [a |-> "fo:font-style", val |-> "italic"]),
       If(Flag(opts, "underline"), [a |-> "style:text-underline-style", val |-> "solid"]),
       If(Flag(opts, "strikethrough"), [a |-> "style:text-line-through-style", val |-> "solid"]),
       If(Flag(opts, "code"), [a |-> "fo:background-color", val |-> "#E8E8E8"]),
       If(Str(opts, "color"), [a |-> "fo:color", val |-> opts.color])
     >>)

\* size is 0 when the argument is absent.
buildOdtStyle(name, opts, size) ==
  [x |-> "style:style", name |-> name, family |-> "paragraph",
   pProps |-> IF "align" \in DOMAIN opts THEN opts.align ELSE Undefined,
   textProps |-> OdtTextProps(opts, IF size # 0 THEN size
                                    ELSE IF "size" \in DOMAIN opts THEN opts.size ELSE 0)]

buildOdtTextStyle(name, opts) ==
  [x |-> "style:style", name |-> name, family |-> "text",
   textProps |-> OdtTextProps(opts, IF "size" \in DOMAIN opts THEN opts.size ELSE 0)]

\* Character data, already escaped, and the elements that hold it.
OdtText(t) == [x |-> "#text", t |-> t]
OdtSpan(styleName, t) == [x |-> "text:span", style |-> styleName, t |-> t]
OdtP(styleName, content) == [x |-> "text:p", style |-> styleName, content |-> content]

\* `P${n}` and `T${n}`
OdtStyleName(letter, n) == <<letter>> \o Digits(n)

\* The condition under which a run gets a text style of its own.
OdtRunStyled(opts) ==
  \/ Flag(opts, "bold") \/ Flag(opts, "italic") \/ Flag(opts, "code")
  \/ Flag(opts, "underline") \/ Flag(opts, "strikethrough") \/ Str(opts, "color")

\* The condition under which a paragraph gets a style of its own.
OdtParagraphStyled(opts) ==
  \/ Flag(opts, "bold") \/ Flag(opts, "italic") \/ Str(opts, "color")
  \/ "align" \in DOMAIN opts \/ Str(opts, "font") \/ Flag(opts, "underline")

\* One run of for (const run of runs), on [k, n, styles, out]: n is
\* styleCount, styles the styles pushed, out the children appended.
OdtRunStep(run, st) ==
  IF OdtRunStyled(run.opts)
  THEN [k |-> st.k + 1, n |-> st.n + 1,
        styles |-> Append(st.styles, buildOdtTextStyle(OdtStyleName("T", st.n + 1), run.opts)),
        out |-> Append(st.out, OdtSpan(OdtStyleName("T", st.n + 1), escapeXml(run.text)))]
  ELSE [k |-> st.k + 1, n |-> st.n, styles |-> st.styles,
        out |-> Append(st.out, OdtText(escapeXml(run.text)))]

RECURSIVE OdtRunsLoop(_, _)
OdtRunsLoop(runs, st) ==
  IF st.k > Len(runs) THEN st ELSE OdtRunsLoop(runs, OdtRunStep(runs[st.k], st))

OdtRuns(runs, n) == OdtRunsLoop(runs, [k |-> 1, n |-> n, styles |-> <<>>, out |-> <<>>])

\* buildOdtList(items, ordered) of the richList branch, from styleCount n:
\* the text:list it appends (node), the styles it pushes and the styleCount
\* it leaves.
RECURSIVE buildOdtList(_, _, _)
RECURSIVE OdtItemsLoop(_, _)
RECURSIVE OdtItemRuns(_, _, _)
RECURSIVE OdtItemChildren(_, _, _, _)

\* One item, on [k, n, styles, out]: r is what its runs made, c what its
\* children made.
OdtItemChildren(items, st, r, c) ==
  OdtItemsLoop(items,
    [k |-> st.k + 1, n |-> c.n,
     styles |-> st.styles \o r.styles \o c.styles,
     out |-> Append(st.out, [x |-> "text:list-item",
                             p |-> OdtP("Standard", r.out),
                             list |-> c.list])])

OdtItemRuns(items, st, r) ==
  OdtItemChildren(items, st, r,
    IF items[st.k].children # Undefined
    THEN buildOdtList(items[st.k].children.items, items[st.k].children.ordered, r.n)
    ELSE [n |-> r.n, styles |-> <<>>, list |-> <<>>])

OdtItemsLoop(items, st) ==
  IF st.k > Len(items) THEN st
  ELSE OdtItemRuns(items, st, OdtRuns(items[st.k].runs, st.n))

OdtListOf(ordered, r) ==
  [n |-> r.n, styles |-> r.styles,
   list |-> <<[x |-> "text:list",
               style |-> IF ordered THEN "Numbering_20_1" ELSE "List_20_1",
               items |-> r.out]>>]

buildOdtList(items, ordered, n) ==
  OdtListOf(ordered, OdtItemsLoop(items, [k |-> 1, n |-> n, styles |-> <<>>, out |-> <<>>]))

\* The rows of a richTable from styleCount n.  The runs are styled row by
\* row, cell by cell, so as one sequence; rows[r][i] gets back the children
\* made from its own runs.
OdtRichRowsOf(rows, cells, r) ==
  LET cellStart(j) == SumSeq([q \in 1..(j - 1) |-> Len(cells[q])])
      rowStart(i) == SumSeq([q \in 1..(i - 1) |-> Len(rows[q])])
  IN [n |-> r.n, styles |-> r.styles,
      nodes |-> <<[x |-> "table:table",
                   rows |-> [i \in 1..Len(rows) |->
                              [j \in 1..Len(rows[i]) |->
                                 [x |-> "table:table-cell",
                                  content |-> Slice(r.out, cellStart(rowStart(i) + j),
                                                    Len(rows[i][j]))]]]]>>]

OdtRichRows(rows, n) == OdtRichRowsOf(rows, Flatten(rows), OdtRuns(Flatten(Flatten(rows)), n))

\* The paragraph of a richParagraph, r what its runs made.
OdtRichParagraph(r) == [n |-> r.n, styles |-> r.styles, nodes |-> <<OdtP("Standard", r.out)>>]

\* The list of a richList, r what buildOdtList made.
OdtRichList(r) == [n |-> r.n, styles |-> r.styles, nodes |-> r.list]

\* '─' forty times
OdtRule == [k \in 1..40 |-> "U+2500"]

\* The paragraphs of a codeBlock, one per line, under one style of their own.
OdtCodeBlock(lines, n) ==
  [n |-> n + 1,
   styles |-> <<[x |-> "style:style", name |-> OdtStyleName("P", n + 1),
                 family |-> "paragraph",
                 textProps |-> <<[a |-> "style:font-name", val |-> CourierNew],
                                 [a |-> "fo:background-color", val |-> "#F5F5F5"]>>]>>,
   nodes |-> [k \in 1..Len(lines) |->
                OdtP(OdtStyleName("P", n + 1), <<OdtText(escapeXml(lines[k]))>>)]]

\* One element of the loop of generateOdtContent, from styleCount n: the
\* styleCount it leaves, the styles it pushes, what it appends to the body.
OdtElement(el, n) ==
  CASE el.type = "heading" ->
         [n |-> n, styles |-> <<>>,
          nodes |-> <<[x |-> "text:h", style |-> <<"Heading", el.level>>,
                       level |-> el.level,
                       content |-> <<OdtText(escapeXml(el.text))>>]>>]
    [] el.type = "paragraph" ->
         IF OdtParagraphStyled(el.opts)
         THEN [n |-> n + 1,
               styles |-> <<buildOdtStyle(OdtStyleName("P", n + 1), el.opts, 0)>>,
               nodes |-> <<OdtP(OdtStyleName("P", n + 1), <<OdtText(escapeXml(el.text))>>)>>]
         ELSE [n |-> n, styles |-> <<>>,
               nodes |-> <<OdtP("Standard", <<OdtText(escapeXml(el.text))>>)>>]
    [] el.type = "text" ->
         [n |-> n + 1,
          styles |-> <<buildOdtStyle(OdtStyleName("P", n + 1), el.opts, el.size)>>,
          nodes |-> <<OdtP(OdtStyleName("P", n + 1), <<OdtText(escapeXml(el.text))>>)>>]
    [] el.type = "lineBreak" ->
         [n |-> n, styles |-> <<>>, nodes |-> <<OdtP("Standard", <<>>)>>]
    [] el.type = "horizontalRule" ->
         [n |-> n, styles |-> <<>>, nodes |-> <<OdtP("Standard", <<OdtText(OdtRule)>>)>>]
    [] el.type = "list" ->
         [n |-> n, styles |-> <<>>,
          nodes |-> <<[x |-> "text:list",
                       style |-> IF el.ordered THEN "Numbering_20_1" ELSE "List_20_1",
                       items |-> [k \in 1..Len(el.items) |->
                                    [x |-> "text:list-item",
                                     p |-> OdtP("Standard",
                                                <<OdtText(escapeXml(el.items[k]))>>),
                                     list |-> <<>>]]]>>]
    [] el.type = "table" ->
         [n |-> n, styles |-> <<>>,
          nodes |-> <<[x |-> "table:table",
                       rows |-> [r \in 1..Len(el.rows) |->
                                  [i \in 1..Len(el.rows[r]) |->
                                     [x |-> "table:table-cell",
                                      content |-> <<OdtText(escapeXml(el.rows[r][i]))>>]]]]>>]
    [] el.type = "link" ->
         [n |-> n, styles |-> <<>>,
          nodes |-> <<[x |-> "text:p",
                       content |-> <<[x |-> "text:a", href |-> escapeXml(el.url),
                                      content |-> <<OdtText(escapeXml(el.text))>>]>>]>>]
    [] el.type = "richParagraph" -> OdtRichParagraph(OdtRuns(el.runs, n))
    [] el.type = "richList" -> OdtRichList(buildOdtList(el.items, el.ordered, n))
    [] el.type = "richTable" -> OdtRichRows(el.rows, n)
    [] el.type = "blockquote" ->
         [n |-> n, styles |-> <<>>,
          nodes |-> <<OdtP("Standard",
                           [k \in 1..Len(el.runs) |-> OdtText(escapeXml(el.runs[k].text))])>>]
    [] el.type = "codeBlock" -> OdtCodeBlock(Split(el.code, "\n"), n)
    [] OTHER -> [n |-> n, styles |-> <<>>, nodes |-> <<>>]

\* for (const el of elements), on [k, n, styles, body]; r is what the element
\* at k made.
RECURSIVE OdtElementsLoop(_, _)
RECURSIVE OdtElementsStep(_, _, _)
\* An image takes a style number, as a styled paragraph does.
OdtElementsStepImage(elements, st, r) ==
  OdtElementsLoop(elements,
    [k |-> st.k + 1,
     n |-> r.n + (IF elements[st.k].type = "image" THEN 1 ELSE 0),
     styles |-> st.styles \o r.styles, body |-> st.body \o r.nodes])

OdtElementsStep(elements, st, r) ==
  OdtElementsLoop(elements,
    [k |-> st.k + 1, n |-> r.n, styles |-> st.styles \o r.styles, body |-> st.body \o r.nodes])

OdtElementsLoop(elements, st) ==
  IF st.k > Len(elements) THEN st
  ELSE OdtElementsStep(elements, st, OdtElement(elements[st.k], st.n))

OdtDocument(r) ==
  [x |-> "office:document-content",
   autoStyles |-> IF Len(r.styles) > 0 THEN r.styles ELSE Undefined,
   body |-> r.body]

generateOdtContent(elements) ==
  OdtDocument(OdtElementsLoop(elements, [k |-> 1, n |-> 0, styles |-> <<>>, body |-> <<>>]))

(***************************************************************************)
(* docx(): the builder                                                     *)
(***************************************************************************)
NewContext(nextRId) ==
  [elements |-> <<>>, hyperlinks |-> <<>>, images |-> <<>>, nextRId |-> nextRId]

\* A docx() whose main context numbers its relationships from 1.
docxNewFromOne ==
  [mainCtx |-> NewContext(1), headerCtx |-> NewContext(100),
   footerCtx |-> NewContext(200), docPrIdCounter |-> 1,
   hasHeader |-> FALSE, hasFooter |-> FALSE]

\* The closure variables of docx() as it returns the builder.
docxNew ==
  [mainCtx |-> NewContext(10), headerCtx |-> NewContext(100),
   footerCtx |-> NewContext(200), docPrIdCounter |-> 1,
   hasHeader |-> FALSE, hasFooter |-> FALSE]

\* A hasLists that looks for the list of a markdown document only.
docxHasListsRich(elements) == \E k \in 1..Len(elements) : elements[k].type = "richList"

\* mainCtx.elements.some(el => el.type === 'list')
docxHasLists(elements) == \E k \in 1..Len(elements) : elements[k].type = "list"

\* Media entries named image${i}, from image0 on.
docxMediaFilesFromZero(allImages) ==
  [i \in 1..Len(allImages) |->
     [name |-> NameMediaPrefix \o Digits(i - 1) \o <<".">> \o allImages[i].ext,
      data |-> allImages[i].data]]

\* The media entries of build(): word/media/image${i + 1}.${ext}, i from 0.
docxMediaFiles(allImages) ==
  [i \in 1..Len(allImages) |->
     [name |-> NameMediaPrefix \o Digits(i) \o <<".">> \o allImages[i].ext,
      data |-> allImages[i].data]]

\* generateDocxHeader or generateDocxFooter, by the part's name.
docxPartXml(name, elements, hasLinksOrImages) ==
  IF name = NameHeader THEN generateDocxHeader(elements, hasLinksOrImages)
  ELSE generateDocxFooter(elements, hasLinksOrImages)

\* A build() that leaves out word/_rels/header1.xml.rels and footer1.xml.rels.
docxPartFilesNoRels(hasPart, ctx, name, relsName, imageOffset) ==
  IF hasPart
  THEN <<[name |-> name,
          xml |-> docxPartXml(name, ctx.elements,
                              Len(ctx.hyperlinks) > 0 \/ Len(ctx.images) > 0)]>>
  ELSE <<>>

\* The entries build() adds for the header (or the footer): the part, and its
\* relationships when it has links or images.
docxPartFiles(hasPart, ctx, name, relsName, imageOffset) ==
  IF hasPart
  THEN LET hasLinksOrImages == Len(ctx.hyperlinks) > 0 \/ Len(ctx.images) > 0
       IN <<[name |-> name, xml |-> docxPartXml(name, ctx.elements, hasLinksOrImages)]>>
          \o If(hasLinksOrImages,
                [name |-> relsName,
                 xml |-> generatePartRels(ctx.hyperlinks, ctx.images, imageOffset)])
  ELSE <<>>

\* The list build() hands to createZip.  An XML part is kept as the record
\* that stands for its text (field xml), a media entry with its bytes (data).
docxFiles(b) ==
  LET hasLists == docxHasLists(b.mainCtx.elements)
      allImages == b.mainCtx.images \o b.headerCtx.images \o b.footerCtx.images
      imageExts == [k \in 1..Len(allImages) |-> allImages[k].ext]
      mainImageOffset == 0
      headerImageOffset == Len(b.mainCtx.images)
      footerImageOffset == Len(b.mainCtx.images) + Len(b.headerCtx.images)
  IN <<[name |-> NameContentTypes,
        xml |-> generateDocxContentTypes(hasLists, b.hasHeader, b.hasFooter, imageExts)],
       [name |-> NameRootRels, xml |-> DOCX_RELS],
       [name |-> NameDocumentRels,
        xml |-> generateDocxRels(hasLists, b.hasHeader, b.hasFooter,
                                 b.mainCtx.hyperlinks, b.mainCtx.images, mainImageOffset)],
       [name |-> NameDocument,
        xml |-> generateDocxDocument(b.mainCtx.elements,
                  IF b.hasHeader THEN <<"r", "I", "d", "H", "e", "a", "d", "e", "r">> ELSE Undefined,
                  IF b.hasFooter THEN <<"r", "I", "d", "F", "o", "o", "t", "e", "r">> ELSE Undefined)],
       [name |-> NameStyles, xml |-> generateDocxStyles]>>
     \o If(hasLists, [name |-> NameNumbering, xml |-> generateDocxNumbering])
     \o docxPartFiles(b.hasHeader, b.headerCtx, NameHeader, NameHeaderRels,
                      headerImageOffset)
     \o docxPartFiles(b.hasFooter, b.footerCtx, NameFooter, NameFooterRels,
                      footerImageOffset)
     \o docxMediaFiles(allImages)

\* enc.encode(xml) of every XML part: the text of a part is not modelled
\* character by character, its bytes are those of xmlText, any text.
EncodeFiles(files, xmlText) ==
  [k \in 1..Len(files) |->
     [name |-> files[k].name,
      data |-> IF "data" \in DOMAIN files[k] THEN files[k].data ELSE TextEncode(xmlText)]]

\* What a build() returns: the archive (zip); files is the list it was made
\* from, kept to state what the XML parts of the archive hold.
Built(files, xmlText) == [files |-> files, zip |-> createZip(EncodeFiles(files, xmlText))]

(***************************************************************************)
(* odt(): the builder                                                      *)
(***************************************************************************)
\* The context of odt() with the counter object it holds (nextDocPrId).
odtNew == [ctx |-> NewContext(1), docPr |-> 1]

\* An ODT package that opens with the manifest.
odtFilesManifestFirst(elements) ==
  <<[name |-> NameManifest, xml |-> ODT_MANIFEST],
    [name |-> NameMimetype, data |-> TextEncode(ODT_MIMETYPE)],
    [name |-> NameContent, xml |-> generateOdtContent(elements)],
    [name |-> NameOdtStyles, xml |-> ODT_STYLES]>>

\* The list build() and markdownToOdt hand to createZip.
odtFiles(elements) ==
  <<[name |-> NameMimetype, data |-> TextEncode(ODT_MIMETYPE)],
    [name |-> NameManifest, xml |-> ODT_MANIFEST],
    [name |-> NameContent, xml |-> generateOdtContent(elements)],
    [name |-> NameOdtStyles, xml |-> ODT_STYLES]>>

(***************************************************************************)
(* Strings of the markdown parser                                          *)
(***************************************************************************)
\* The characters \s matches and trim() strips.
WhiteSpace ==
  {" ", "\t", "\n", "\r", "\f", "U+000B", "U+00A0", "U+1680", "U+2000", "U+2001",
   "U+2002", "U+2003", "U+2004", "U+2005", "U+2006", "U+2007", "U+2008", "U+2009",
   "U+200A", "U+2028", "U+2029", "U+202F", "U+205F", "U+3000", "U+FEFF"}

\* The characters the dot of a regular expression does not match.
LineTerminators == {"\n", "\r", "U+2028", "U+2029"}

DigitChars == {"0", "1", "2", "3", "4", "5", "6", "7", "8", "9"}

\* s.startsWith(m)
StartsWith(s, m) == Len(m) <= Len(s) /\ SubSeq(s, 1, Len(m)) = m

\* s.slice(n), for 0 <= n
Drop(s, n) == SubSeq(s, n + 1, Len(s))

\* s.slice(from, to), for 0 <= from
SliceTo(s, from, to) == SubSeq(s, from + 1, to)

\* s.indexOf(c, from) for a one-character c: positions count from 0, -1 for none.
IndexOf(s, c, from) ==
  IF \E k \in (from + 1)..Len(s) : s[k] = c
  THEN (CHOOSE k \in (from + 1)..Len(s) :
          s[k] = c /\ \A j \in (from + 1)..(k - 1) : s[j] # c) - 1
  ELSE -1

\* s[i] === c, positions from 0: false where s has no such position.
CharIs(s, i, c) == i + 1 <= Len(s) /\ s[i + 1] = c

\* The number of leading characters of s that are in set.
LeadingIn(s, set) ==
  IF \E k \in 1..Len(s) : s[k] \notin set
  THEN (CHOOSE k \in 1..Len(s) : s[k] \notin set /\ \A j \in 1..(k - 1) : s[j] \in set) - 1
  ELSE Len(s)

TrailingIn(s, set) ==
  IF \E k \in 1..Len(s) : s[k] \notin set
  THEN Len(s) - (CHOOSE k \in 1..Len(s) :
                   s[k] \notin set /\ \A j \in (k + 1)..Len(s) : s[j] \in set)
  ELSE Len(s)

\* s.trim()
Trim(s) ==
  IF LeadingIn(s, WhiteSpace) = Len(s) THEN <<>>
  ELSE SubSeq(s, LeadingIn(s, WhiteSpace) + 1, Len(s) - TrailingIn(s, WhiteSpace))

\* parts.join('\n')
RECURSIVE JoinLines(_)
JoinLines(parts) ==
  IF parts = <<>> THEN <<>>
  ELSE IF Len(parts) = 1 THEN parts[1]
  ELSE parts[1] \o <<"\n">> \o JoinLines(Tail(parts))

\* md.replace(/\r\n/g, '\n'), on [k, out].
RECURSIVE ReplaceCrLfLoop(_, _)
ReplaceCrLfLoop(s, st) ==
  IF st.k > Len(s) THEN st.out
  ELSE IF s[st.k] = "\r" /\ st.k < Len(s) /\ s[st.k + 1] = "\n"
       THEN ReplaceCrLfLoop(s, [k |-> st.k + 2, out |-> Append(st.out, "\n")])
       ELSE ReplaceCrLfLoop(s, [k |-> st.k + 1, out |-> Append(st.out, s[st.k])])

ReplaceCrLf(s) == ReplaceCrLfLoop(s, [k |-> 1, out |-> <<>>])

(***************************************************************************)
(* The inline parsers.  A Result is [ok |-> TRUE, val, rest] or Fail.      *)
(***************************************************************************)
Ok(val, rest) == [ok |-> TRUE, val |-> val, rest |-> rest]
Fail == [ok |-> FALSE]

TextToken(content) == [tag |-> "text", content |-> content]

inlineSpecials == {"*", "_", "U+0060", "~", "[", "!", "\\"}

\* map(seq(lit('\\'), anyChar), ...)
escapeP(s) ==
  IF StartsWith(s, <<"\\">>) /\ Len(s) >= 2
  THEN Ok(TextToken(<<s[2]>>), Drop(s, 2))
  ELSE Fail

\* A code span that the end of the input closes as well.
codePUnclosed(s) ==
  IF ~StartsWith(s, <<"U+0060">>) THEN Fail
  ELSE LET rest == Drop(s, 1)
           n == LeadingIn(rest, {c \in {rest[k] : k \in 1..Len(rest)} : c # "U+0060"})
       IN IF n > 0
          THEN Ok([tag |-> "code", content |-> SubSeq(rest, 1, n)],
                  Drop(rest, IF CharIs(rest, n, "U+0060") THEN n + 1 ELSE n))
          ELSE Fail

\* between('`', '`', takeWhile(c => c !== '`'))
codeP(s) ==
  IF ~StartsWith(s, <<"U+0060">>) THEN Fail
  ELSE LET rest == Drop(s, 1)
           n == LeadingIn(rest, {c \in {rest[k] : k \in 1..Len(rest)} : c # "U+0060"})
       IN IF n > 0 /\ CharIs(rest, n, "U+0060")
          THEN Ok([tag |-> "code", content |-> SubSeq(rest, 1, n)], Drop(rest, n + 1))
          ELSE Fail

\* takeWhile(c => !inlineSpecials.has(c))
plainTextP(s) ==
  LET n == LeadingIn(s, {c \in {s[k] : k \in 1..Len(s)} : c \notin inlineSpecials})
  IN IF n > 0 THEN Ok(TextToken(SubSeq(s, 1, n)), Drop(s, n)) ELSE Fail

\* The character is made a token and left in the input.
singleCharPKeeps(s) == IF Len(s) > 0 THEN Ok(TextToken(<<s[1]>>), s) ELSE Fail

\* map(anyChar, ...)
singleCharP(s) == IF Len(s) > 0 THEN Ok(TextToken(<<s[1]>>), Drop(s, 1)) ELSE Fail

imageP(s) ==
  IF ~StartsWith(s, <<"!", "[">>) THEN Fail
  ELSE LET altEnd == IndexOf(s, "]", 2)
       IN IF altEnd = -1 \/ ~CharIs(s, altEnd + 1, "(") THEN Fail
          ELSE LET srcEnd == IndexOf(s, ")", altEnd + 2)
               IN IF srcEnd = -1 THEN Fail
                  ELSE Ok([tag |-> "image", alt |-> SliceTo(s, 2, altEnd),
                           src |-> SliceTo(s, altEnd + 2, srcEnd)],
                          Drop(s, srcEnd + 1))

\* The first of two results that is a success.
FirstOk(r, other) == IF r.ok THEN r ELSE other

RECURSIVE inlineElem(_)
RECURSIVE untilInlineLoop(_, _)
RECURSIVE untilInlineStep(_, _, _)
RECURSIVE manyInlineElem(_)
RECURSIVE parseInlineTokens(_)

\* untilInline(delim)(s), on [rest, tokens]; r is the result of inlineElem on
\* the rest.
untilInlineStep(delim, st, r) ==
  IF ~r.ok THEN Ok(st.tokens, st.rest)
  ELSE untilInlineLoop(delim, [rest |-> r.rest, tokens |-> Append(st.tokens, r.val)])

untilInlineLoop(delim, st) ==
  IF Len(st.rest) > 0 /\ ~StartsWith(st.rest, delim)
  THEN untilInlineStep(delim, st, inlineElem(st.rest))
  ELSE Ok(st.tokens, st.rest)

untilInline(delim, s) == untilInlineLoop(delim, [rest |-> s, tokens |-> <<>>])

\* lit(close) after the parser between open and close, mapped to a token.
closeP(tag, delim, r2) ==
  IF StartsWith(r2.rest, delim)
  THEN Ok([tag |-> tag, children |-> r2.val], Drop(r2.rest, Len(delim)))
  ELSE Fail

\* between(delim, delim, untilInline(delim)), mapped to a token of the tag.
delimitedP(tag, delim, s) ==
  IF ~StartsWith(s, delim) THEN Fail
  ELSE closeP(tag, delim, untilInline(delim, Drop(s, Len(delim))))

boldP(s) ==
  FirstOk(delimitedP("bold", <<"*", "*">>, s), delimitedP("bold", <<"_", "_">>, s))

strikeP(s) == delimitedP("strike", <<"~", "~">>, s)

italicP(s) ==
  IF ~CharIs(s, 0, "*") /\ ~CharIs(s, 0, "_") THEN Fail
  ELSE IF CharIs(s, 1, s[1]) THEN Fail
  ELSE IF IndexOf(s, s[1], 1) <= 1 THEN Fail
  ELSE Ok([tag |-> "italic",
           children |-> parseInlineTokens(SliceTo(s, 1, IndexOf(s, s[1], 1)))],
          Drop(s, IndexOf(s, s[1], 1) + 1))

\* linkP once textEnd and hrefEnd are known.
linkToken(s, textEnd, hrefEnd) ==
  Ok([tag |-> "link",
      children |-> parseInlineTokens(SliceTo(s, 1, textEnd)),
      href |-> SliceTo(s, textEnd + 2, hrefEnd)],
     Drop(s, hrefEnd + 1))

linkP(s) ==
  IF ~CharIs(s, 0, "[") THEN Fail
  ELSE IF IndexOf(s, "]", 1) = -1 \/ ~CharIs(s, IndexOf(s, "]", 1) + 1, "(") THEN Fail
  ELSE IF IndexOf(s, ")", IndexOf(s, "]", 1) + 2) = -1 THEN Fail
  ELSE linkToken(s, IndexOf(s, "]", 1), IndexOf(s, ")", IndexOf(s, "]", 1) + 2))

\* alt(escapeP, codeP, boldP, strikeP, italicP, imageP, linkP, plainTextP, singleCharP)
inlineElem(s) ==
  FirstOk(escapeP(s), FirstOk(codeP(s), FirstOk(boldP(s), FirstOk(strikeP(s),
  FirstOk(italicP(s), FirstOk(imageP(s), FirstOk(linkP(s), FirstOk(plainTextP(s),
  singleCharP(s)))))))))

\* many(inlineElem) is a while (true) loop on [pc, rest, results]: pc is
\* "loop" at the head of an iteration, "return" once the loop has been left.
manyEnter(s) == [pc |-> "loop", rest |-> s, results |-> <<>>]

\* One iteration that leaves the loop after 1000 results.
manyInlineStepCapped(st, r) ==
  IF ~r.ok \/ Len(st.results) >= 1000 THEN [st EXCEPT !.pc = "return"]
  ELSE [pc |-> "loop", rest |-> r.rest, results |-> Append(st.results, r.val)]

\* One iteration; r is the result of inlineElem on the rest.
manyInlineStep(st, r) ==
  IF ~r.ok THEN [st EXCEPT !.pc = "return"]
  ELSE [pc |-> "loop", rest |-> r.rest, results |-> Append(st.results, r.val)]

\* The loop and its return: many always succeeds.
manyInlineElem(st) ==
  IF st.pc = "return" THEN Ok(st.results, st.rest)
  ELSE manyInlineElem(manyInlineStep(st, inlineElem(st.rest)))

inlineTokens(s) == manyInlineElem(manyEnter(s))

\* r.ok ? r.val : [{ tag: 'text', content: s }]
inlineResult(s, r) == IF r.ok THEN r.val ELSE <<TextToken(s)>>

parseInlineTokens(s) == inlineResult(s, inlineTokens(s))

\* tokens.reduce(...), on [k, acc].
RECURSIVE mergeTextLoop(_, _)
mergeTextLoop(tokens, st) ==
  IF st.k > Len(tokens) THEN st.acc
  ELSE LET t == tokens[st.k]
           n == Len(st.acc)
       IN IF t.tag = "text" /\ n > 0 /\ st.acc[n].tag = "text"
          THEN mergeTextLoop(tokens,
                 [k |-> st.k + 1,
                  acc |-> [st.acc EXCEPT ![n] = TextToken(st.acc[n].content \o t.content)]])
          ELSE mergeTextLoop(tokens, [k |-> st.k + 1, acc |-> Append(st.acc, t)])

\* The tokens as they are, adjacent text tokens unmerged.
mergeTextTokensNone(tokens) == tokens

mergeTextTokens(tokens) == mergeTextLoop(tokens, [k |-> 1, acc |-> <<>>])

\* inherited is {} at the top: a run made under no option has opts undefined,
\* which reads like no option at all.
RECURSIVE tokensToRuns(_, _)
tokensToRuns(tokens, inherited) ==
  LET merged == mergeTextTokens(tokens)
      runsOf(t) ==
        CASE t.tag = "text" -> <<[text |-> t.content, opts |-> inherited]>>
          [] t.tag = "bold" -> tokensToRuns(t.children, With(inherited, "bold", TRUE))
          [] t.tag = "italic" -> tokensToRuns(t.children, With(inherited, "italic", TRUE))
          [] t.tag = "strike" ->
               tokensToRuns(t.children, With(inherited, "strikethrough", TRUE))
          [] t.tag = "code" ->
               <<[text |-> t.content, opts |-> With(inherited, "code", TRUE)]>>
          [] t.tag = "link" ->
               LET rs == tokensToRuns(t.children,
                           With(With(inherited, "color",
                                     <<"#", "0", "5", "6", "3", "C", "1">>),
                                "underline", TRUE))
               IN [k \in 1..Len(rs) |->
                     [text |-> rs[k].text, opts |-> rs[k].opts, link |-> t.href]]
          [] t.tag = "image" -> <<>>
  IN Flatten([k \in 1..Len(merged) |-> runsOf(merged[k])])

RECURSIVE tokensToPlainText(_)
tokensToPlainText(tokens) ==
  Flatten([k \in 1..Len(tokens) |->
    CASE tokens[k].tag \in {"text", "code"} -> tokens[k].content
      [] tokens[k].tag \in {"bold", "italic", "strike", "link"} ->
           tokensToPlainText(tokens[k].children)
      [] tokens[k].tag = "image" -> tokens[k].alt])

(***************************************************************************)
(* parseBlockLines.  Lines are counted from 1 here, from 0 in the source.  *)
(***************************************************************************)
\* /^#{1,3}\s/.test(line)
IsHeading(line) ==
  LET n == LeadingIn(line, {"#"})
  IN n \in 1..3 /\ n < Len(line) /\ line[n + 1] \in WhiteSpace

\* line.match(/^(#{1,3})\s+(.*)$/): the groups, or null when what follows the
\* white space holds a character the dot does not match.
HeadingMatch(line) ==
  LET n == LeadingIn(line, {"#"})
      afterHashes == Drop(line, n)
      text == Drop(afterHashes, LeadingIn(afterHashes, WhiteSpace))
  IN IF \E k \in 1..Len(text) : text[k] \in LineTerminators THEN [null |-> TRUE]
     ELSE [hashes |-> SubSeq(line, 1, n), text |-> text]

\* /^(-{3,}|\*{3,}|_{3,})$/.test(s)
IsRule(s) ==
  /\ Len(s) >= 3
  /\ \E c \in {"-", "*", "_"} : \A k \in 1..Len(s) : s[k] = c

\* /^\|.+\|$/.test(line)
IsTableRow(line) ==
  /\ Len(line) >= 3
  /\ line[1] = "|" /\ line[Len(line)] = "|"
  /\ \A k \in 2..(Len(line) - 1) : line[k] \notin LineTerminators

\* /^\|[-:| ]+\|$/.test(line)
IsTableSeparator(line) ==
  /\ Len(line) >= 3
  /\ line[1] = "|" /\ line[Len(line)] = "|"
  /\ \A k \in 2..(Len(line) - 1) : line[k] \in {"-", ":", "|", " "}

\* r.slice(1, -1).split('|').map(c => parseInlineTokens(c.trim()))
parseRow(r) ==
  LET cells == Split(SubSeq(r, 2, Len(r) - 1), "|")
  IN [k \in 1..Len(cells) |-> parseInlineTokens(Trim(cells[k]))]

\* l.match(/^(\s*)/)[1].length
Spaces(l) == LeadingIn(l, WhiteSpace)

\* /^\s*[-*]\s/.test(l)
IsBullet(l) ==
  LET n == Spaces(l)
  IN n + 2 <= Len(l) /\ l[n + 1] \in {"-", "*"} /\ l[n + 2] \in WhiteSpace

\* /^\s*\d+\./.test(l)
IsNumbered(l) ==
  LET rest == Drop(l, Spaces(l))
      d == LeadingIn(rest, DigitChars)
  IN d >= 1 /\ CharIs(rest, d, ".")

\* /^\s*\d+\.\s/.test(l)
IsNumberedItem(l) ==
  LET rest == Drop(l, Spaces(l))
      d == LeadingIn(rest, DigitChars)
  IN IsNumbered(l) /\ d + 2 <= Len(rest) /\ rest[d + 2] \in WhiteSpace

\* l.replace(/^\s*[-*]\s|^\s*\d+\.\s/, '')
StripMarker(l) ==
  IF IsBullet(l) THEN Drop(l, Spaces(l) + 2)
  ELSE IF IsNumberedItem(l)
       THEN Drop(l, Spaces(l) + LeadingIn(Drop(l, Spaces(l)), DigitChars) + 2)
       ELSE l

\* parseList(startIdx, indent): the while loop on [idx, items]; the result is
\* [items, nextIdx].
RECURSIVE parseListLoop(_, _, _, _)
parseListLoop(lines, startIdx, indent, st) ==
  IF st.idx > Len(lines) THEN [items |-> st.items, nextIdx |-> st.idx]
  ELSE
    LET l == lines[st.idx]
        spaces == Spaces(l)
        ordered == IsNumbered(lines[startIdx])
        marker == IF ordered THEN IsNumberedItem(l) ELSE IsBullet(l)
        done == [items |-> st.items, nextIdx |-> st.idx]
    IN IF spaces < indent /\ st.idx # startIdx THEN done
       ELSE IF spaces = indent /\ marker
       THEN LET content == parseInlineTokens(StripMarker(l))
                idx == st.idx + 1
                nests == /\ idx <= Len(lines)
                         /\ Spaces(lines[idx]) > indent
                         /\ (IsBullet(lines[idx]) \/ IsNumberedItem(lines[idx]))
                sub == parseListLoop(lines, idx, Spaces(lines[idx]),
                                     [idx |-> idx, items |-> <<>>])
            IN parseListLoop(lines, startIdx, indent,
                 [idx |-> IF nests THEN sub.nextIdx ELSE idx,
                  items |-> Append(st.items,
                              [content |-> content,
                               nested |-> IF nests
                                          THEN [ordered |-> IsNumbered(lines[idx]),
                                                items |-> sub.items]
                                          ELSE Undefined])])
       ELSE IF spaces > indent
       THEN parseListLoop(lines, startIdx, indent, [idx |-> st.idx + 1, items |-> st.items])
       ELSE done

parseList(lines, startIdx, indent) ==
  parseListLoop(lines, startIdx, indent, [idx |-> startIdx, items |-> <<>>])

\* The number of lines from line i on that satisfy the test of a while loop,
\* up to the first that does not.
FenceBody(lines, i) ==
  LeadingIn([k \in 1..(Len(lines) - i + 1) |->
               StartsWith(lines[i + k - 1], <<"U+0060", "U+0060", "U+0060">>)], {FALSE})

QuoteRun(lines, i) ==
  LeadingIn([k \in 1..(Len(lines) - i + 1) |->
               StartsWith(lines[i + k - 1], <<">", " ">>)], {TRUE})

TableRun(lines, i) ==
  LeadingIn([k \in 1..(Len(lines) - i + 1) |-> IsTableRow(lines[i + k - 1])], {TRUE})

\* parseBlockLines is a while loop on [i, blocks, threw]: threw when the
\* heading branch reads a group of a match that is null, a TypeError.
RECURSIVE parseBlockLoop(_, _)
RECURSIVE parseBlockStep(_, _)

\* One iteration of the loop, at line st.i: the state it leaves.
parseBlockStep(lines, st) ==
    LET line == lines[st.i]
        push(b, next) == [i |-> next, blocks |-> Append(st.blocks, b), threw |-> FALSE]
    IN IF Trim(line) = <<>>
       THEN [st EXCEPT !.i = @ + 1]
       ELSE IF StartsWith(line, <<"U+0060", "U+0060", "U+0060">>)
       THEN LET n == FenceBody(lines, st.i + 1)
                lang == Trim(Drop(line, 3))
            IN push([tag |-> "pre",
                     code |-> JoinLines(SubSeq(lines, st.i + 1, st.i + n)),
                     lang |-> IF lang = <<>> THEN Undefined ELSE lang],
                    st.i + n + 2)
       ELSE IF IsHeading(line)
       THEN LET m == HeadingMatch(line)
            IN IF "null" \in DOMAIN m THEN [st EXCEPT !.threw = TRUE]
               ELSE push([tag |-> "h",
                          level |-> IF Len(m.hashes) < 3 THEN Len(m.hashes) ELSE 3,
                          content |-> parseInlineTokens(m.text)],
                         st.i + 1)
       ELSE IF IsRule(Trim(line))
       THEN push([tag |-> "hr"], st.i + 1)
       ELSE IF StartsWith(line, <<">", " ">>)
       THEN LET n == QuoteRun(lines, st.i)
                inner == parseBlockLoop(
                           [k \in 1..n |-> Drop(lines[st.i + k - 1], 2)],
                           [i |-> 1, blocks |-> <<>>, threw |-> FALSE])
            IN IF inner.threw THEN [st EXCEPT !.threw = TRUE]
               ELSE push([tag |-> "quote", blocks |-> inner.blocks], st.i + n)
       ELSE IF IsTableRow(line)
       THEN LET sep == IF st.i + 1 <= Len(lines) /\ IsTableSeparator(lines[st.i + 1])
                       THEN 1 ELSE 0
                n == TableRun(lines, st.i + 1 + sep)
            IN push([tag |-> "table", head |-> parseRow(line),
                     body |-> [k \in 1..n |-> parseRow(lines[st.i + sep + k])]],
                    st.i + 1 + sep + n)
       ELSE IF IsBullet(line) \/ IsNumberedItem(line)
       THEN LET result == parseList(lines, st.i, Spaces(line))
            IN push([tag |-> IF IsNumbered(line) THEN "ol" ELSE "ul",
                     items |-> result.items],
                    result.nextIdx)
       ELSE push([tag |-> "p", content |-> parseInlineTokens(line)], st.i + 1)

\* while (i < lines.length)
parseBlockLoop(lines, st) ==
  IF st.threw \/ st.i > Len(lines) THEN st
  ELSE parseBlockLoop(lines, parseBlockStep(lines, st))

parseBlockLines(lines) == parseBlockLoop(lines, [i |-> 1, blocks |-> <<>>, threw |-> FALSE])

RECURSIVE listNodeToListItem(_)
listNodeToListItem(node) ==
  [runs |-> tokensToRuns(node.content, NoOpts),
   children |-> IF node.nested # Undefined
                THEN [ordered |-> node.nested.ordered,
                      items |-> [k \in 1..Len(node.nested.items) |->
                                   listNodeToListItem(node.nested.items[k])]]
                ELSE Undefined]

\* The runs of the paragraphs of a quote, the other blocks dropped.
QuoteRuns(blocks) ==
  Flatten([k \in 1..Len(blocks) |->
             IF blocks[k].tag = "p" THEN tokensToRuns(blocks[k].content, NoOpts) ELSE <<>>])

blockToElement(b) ==
  CASE b.tag = "h" ->
         <<[type |-> "heading", text |-> tokensToPlainText(b.content), level |-> b.level]>>
    [] b.tag = "p" -> <<[type |-> "richParagraph", runs |-> tokensToRuns(b.content, NoOpts)]>>
    [] b.tag = "pre" -> <<[type |-> "codeBlock", code |-> b.code, language |-> b.lang]>>
    [] b.tag = "hr" -> <<[type |-> "horizontalRule"]>>
    [] b.tag = "quote" -> <<[type |-> "blockquote", runs |-> QuoteRuns(b.blocks)]>>
    [] b.tag \in {"ul", "ol"} ->
         <<[type |-> "richList", ordered |-> (b.tag = "ol"),
            items |-> [k \in 1..Len(b.items) |-> listNodeToListItem(b.items[k])]]>>
    [] b.tag = "table" ->
         <<[type |-> "richTable",
            rows |-> <<[k \in 1..Len(b.head) |-> tokensToRuns(b.head[k], NoOpts)]>>
                     \o [r \in 1..Len(b.body) |->
                           [k \in 1..Len(b.body[r]) |-> tokensToRuns(b.body[r][k], NoOpts)]]]>>

\* parseBlockLines(md.replace(/\r\n/g, '\n').split('\n'))
parseMarkdownAST(md) == parseBlockLines(Split(ReplaceCrLf(md), "\n"))

astToElements(blocks) == Flatten([k \in 1..Len(blocks) |-> blockToElement(blocks[k])])

\* What a call that throws leaves in the place of its result.
Threw == [threw |-> TRUE]

\* astToElements(parseMarkdownAST(md)): the elements, unless the parser threw.
astResult(ast) ==
  [threw |-> ast.threw, elements |-> IF ast.threw THEN <<>> ELSE astToElements(ast.blocks)]

parseMarkdownToElements(md) == astResult(parseMarkdownAST(md))

(***************************************************************************)
(* markdownToDocx and markdownToOdt                                        *)
(***************************************************************************)
\* mainCtx.elements.some(el => el.type === 'list' || el.type === 'richList')
mdHasLists(elements) ==
  \E k \in 1..Len(elements) : elements[k].type \in {"list", "richList"}

\* The list markdownToDocx hands to createZip.
markdownToDocxFiles(elements) ==
  LET hasLists == mdHasLists(elements)
  IN <<[name |-> NameContentTypes,
        xml |-> generateDocxContentTypes(hasLists, FALSE, FALSE, <<>>)],
       [name |-> NameRootRels, xml |-> DOCX_RELS],
       [name |-> NameDocumentRels,
        xml |-> generateDocxRels(hasLists, FALSE, FALSE, <<>>, <<>>, 0)],
       [name |-> NameDocument, xml |-> generateDocxDocument(elements, Undefined, Undefined)],
       [name |-> NameStyles, xml |-> generateDocxStyles]>>
     \o If(hasLists, [name |-> NameNumbering, xml |-> generateDocxNumbering])

\* markdownToDocx(md): the archive, or Threw when the parser throws.
\* The archive made of what the parser returned, or Threw when it threw.
markdownArchive(parsed, files, xmlText) ==
  IF parsed.threw THEN Threw ELSE Built(files, xmlText)

mdDocx(parsed, xmlText) ==
  markdownArchive(parsed, markdownToDocxFiles(parsed.elements), xmlText)

mdOdt(parsed, xmlText) == markdownArchive(parsed, odtFiles(parsed.elements), xmlText)

markdownToDocx(md, xmlText) == mdDocx(parseMarkdownToElements(md), xmlText)

markdownToOdt(md, xmlText) == mdOdt(parseMarkdownToElements(md), xmlText)

(***************************************************************************)
(* The builder state while a behaviour exercises a pure function           *)
(***************************************************************************)
NoBuilder ==
  /\ mainCtx = None
  /\ headerCtx = None
  /\ footerCtx = None
  /\ docPrIdCounter = None
  /\ hasHeader = FALSE
  /\ hasFooter = FALSE
  /\ odtCtx = None

builderVars == <<mainCtx, headerCtx, footerCtx, docPrIdCounter,
                 hasHeader, hasFooter, odtCtx>>

(***************************************************************************)
(* SpecCrc: crc32 applied to every byte array within the bounds            *)
(***************************************************************************)
MaxCrcLen == 3
CrcBytes == {0, 1, 97, 128, 255}

InitCrc ==
  /\ call \in {[fn |-> "crc32", arg |-> d] : d \in SeqsUpTo(CrcBytes, MaxCrcLen)}
  /\ ret = None
  /\ NoBuilder

CallCrc32 ==
  /\ call.fn = "crc32"
  /\ ret = None
  /\ ret' = crc32(call.arg)
  /\ UNCHANGED <<call, builderVars>>

NextCrc == CallCrc32

SpecCrc == InitCrc /\ [][NextCrc]_vars

(***************************************************************************)
(* The table-driven CRC-32 (reflected polynomial 0xEDB88320), on unsigned  *)
(* words: the reference crc32 is compared with.                            *)
(***************************************************************************)
RefShr(w, n) ==
  LET p == 2 ^ n IN Word(w.hi \div p, (w.lo \div p) + (w.hi % p) * (65536 \div p))

RefXor(a, b) == Word(XorBits(a.hi, b.hi, 16), XorBits(a.lo, b.lo, 16))

RECURSIVE RefTableEntry(_)
RefTableEntry(st) ==
  IF st.k = 0 THEN st.c
  ELSE RefTableEntry(
         [k |-> st.k - 1,
          c |-> IF st.c.lo % 2 = 1 THEN RefXor(Word(60856, 33568), RefShr(st.c, 1))
                ELSE RefShr(st.c, 1)])

RefTable == [n \in 0..255 |-> RefTableEntry([k |-> 8, c |-> Word(0, n)])]

RECURSIVE RefCrcLoop(_, _)
RefCrcLoop(data, st) ==
  IF st.i > Len(data) THEN st.c
  ELSE RefCrcLoop(data,
         [i |-> st.i + 1,
          c |-> RefXor(RefTable[XorBits(st.c.lo % 256, data[st.i], 8)], RefShr(st.c, 8))])

RefCrc32(data) ==
  RefXor(RefCrcLoop(data, [i |-> 1, c |-> Word(65535, 65535)]), Word(65535, 65535))

\* C3: for every byte sequence crc32 returns the standard CRC-32, the value of
\* the table-driven algorithm, as an unsigned 32-bit integer: 0 for the empty
\* sequence, 0xE8B7BE43 for the single byte 0x61.
C3_Crc32Standard ==
  (call.fn = "crc32" /\ ret # None) =>
    /\ ret = RefCrc32(call.arg)
    /\ ret.hi \in 0..65535 /\ ret.lo \in 0..65535
    /\ (call.arg = <<>> => ret = Word(0, 0))
    /\ (call.arg = <<97>> => ret = Word(59575, 48707))

\* crc32 has returned for a three-byte input with the top bit of a byte set.
C3_Witness ==
  /\ call.fn = "crc32" /\ ret # None
  /\ Len(call.arg) = 3 /\ call.arg[1] = 255

(***************************************************************************)
(* Spec: the four producers of an archive.  A behaviour is one builder,    *)
(* docx() or odt(), and the calls made on it, or one call of a markdown    *)
(* converter.                                                              *)
(***************************************************************************)
MaxElements == 3        \* elements added to one builder, over all its parts
MaxCallbackCalls == 2   \* DocContext calls made by one callback
MaxMdLines == 2         \* lines of a markdown text

PngData == <<137, 80, 78, 71>>
JpegData == <<255, 216>>

\* The DocContext calls a callback of a docx() builder draws from.
BuilderOps ==
  {[m |-> "list", items |-> <<<<"x">>>>, ordered |-> FALSE],
   [m |-> "link", text |-> <<"t">>, url |-> <<"u", "&">>, opts |-> NoOpts],
   [m |-> "image", data |-> PngData, opts |-> [width |-> 1, height |-> 2]],
   [m |-> "image", data |-> JpegData, opts |-> [width |-> 1, height |-> 2]]}

Callbacks == SeqsUpTo(BuilderOps, MaxCallbackCalls)

\* The DocContext calls a callback of an odt() builder draws from.
OdtOps ==
  {[m |-> "heading", str |-> <<"h">>, level |-> 1],
   [m |-> "paragraph", str |-> <<"<">>, opts |-> [bold |-> TRUE]],
   [m |-> "text", str |-> <<"t">>, size |-> 12, opts |-> NoOpts],
   [m |-> "list", items |-> <<<<"x">>>>, ordered |-> TRUE],
   [m |-> "image", data |-> PngData, opts |-> [width |-> 1, height |-> 2]],
   [m |-> "pageNumber"]}

OdtCallbacks == SeqsUpTo(OdtOps, MaxCallbackCalls)

\* The lines a markdown text is made of.
MdLines ==
  {<<>>,
   <<"a">>,
   <<"-", " ", "a">>,
   <<" ", " ", "-", " ", "b">>,
   <<"1", ".", " ", "a">>,
   <<"#", " ", "a">>,
   <<">", " ", "a">>,
   <<"-", "-", "-">>,
   <<"|", "a", "|">>,
   <<"|", "-", "|">>,
   <<"*", "a", "*">>,
   <<"U+0060", "U+0060", "U+0060">>,
   <<"#", " ", "a", "\r", "b">>,
   <<"[", "a", "]", "(", "u", ")">>,
   <<"U+0060", "&", "U+0060">>}

\* lines.join('\n') for up to MaxMdLines lines.
MdInputs == {JoinLines(ls) : ls \in SeqsUpTo(MdLines, MaxMdLines)}

\* The texts standing for the text of an XML part.
XmlTexts == {<<"<">>, <<"<", "U+00E9">>}

\* The closure variables of the docx() builder, as one record.
Builder ==
  [mainCtx |-> mainCtx, headerCtx |-> headerCtx, footerCtx |-> footerCtx,
   docPrIdCounter |-> docPrIdCounter, hasHeader |-> hasHeader, hasFooter |-> hasFooter]

NumElements ==
  Len(mainCtx.elements) + Len(headerCtx.elements) + Len(footerCtx.elements)

\* content(), header() and footer() return the builder itself.
RetBuilder == [builder |-> TRUE]

InitDocx ==
  /\ call = [fn |-> "docx"]
  /\ ret = RetBuilder
  /\ mainCtx = docxNew.mainCtx
  /\ headerCtx = docxNew.headerCtx
  /\ footerCtx = docxNew.footerCtx
  /\ docPrIdCounter = docxNew.docPrIdCounter
  /\ hasHeader = docxNew.hasHeader
  /\ hasFooter = docxNew.hasFooter
  /\ odtCtx = None

InitOdt ==
  /\ call = [fn |-> "odt"]
  /\ ret = RetBuilder
  /\ odtCtx = odtNew
  /\ mainCtx = None
  /\ headerCtx = None
  /\ footerCtx = None
  /\ docPrIdCounter = None
  /\ hasHeader = FALSE
  /\ hasFooter = FALSE

InitMarkdown ==
  /\ call \in {[fn |-> f, arg |-> md] : f \in {"markdownToDocx", "markdownToOdt"},
                                         md \in MdInputs}
  /\ ret = None
  /\ NoBuilder

\* builder.content(fn)
DocxContent(ops) ==
  /\ call.fn = "docx"
  /\ NumElements + Len(ops) <= MaxElements
  /\ LET r == runCallback(mainCtx, docPrIdCounter, ops)
     IN /\ mainCtx' = r.ctx
        /\ docPrIdCounter' = r.docPr
  /\ ret' = RetBuilder
  /\ UNCHANGED <<call, headerCtx, footerCtx, hasHeader, hasFooter, odtCtx>>

\* builder.header(fn)
DocxHeader(ops) ==
  /\ call.fn = "docx"
  /\ NumElements + Len(ops) <= MaxElements
  /\ hasHeader' = TRUE
  /\ LET r == runCallback(headerCtx, docPrIdCounter, ops)
     IN /\ headerCtx' = r.ctx
        /\ docPrIdCounter' = r.docPr
  /\ ret' = RetBuilder
  /\ UNCHANGED <<call, mainCtx, footerCtx, hasFooter, odtCtx>>

\* builder.footer(fn)
DocxFooter(ops) ==
  /\ call.fn = "docx"
  /\ NumElements + Len(ops) <= MaxElements
  /\ hasFooter' = TRUE
  /\ LET r == runCallback(footerCtx, docPrIdCounter, ops)
     IN /\ footerCtx' = r.ctx
        /\ docPrIdCounter' = r.docPr
  /\ ret' = RetBuilder
  /\ UNCHANGED <<call, mainCtx, headerCtx, hasHeader, odtCtx>>

\* builder.build()
DocxBuild(xmlText) ==
  /\ call.fn = "docx"
  /\ ret' = Built(docxFiles(Builder), xmlText)
  /\ UNCHANGED <<call, builderVars>>

\* odt().content(fn)
OdtContent(ops) ==
  /\ call.fn = "odt"
  /\ Len(odtCtx.ctx.elements) + Len(ops) <= MaxElements
  /\ odtCtx' = runCallback(odtCtx.ctx, odtCtx.docPr, ops)
  /\ ret' = RetBuilder
  /\ UNCHANGED <<call, mainCtx, headerCtx, footerCtx, docPrIdCounter, hasHeader, hasFooter>>

\* odt().build()
OdtBuild(xmlText) ==
  /\ call.fn = "odt"
  /\ ret' = Built(odtFiles(odtCtx.ctx.elements), xmlText)
  /\ UNCHANGED <<call, builderVars>>

CallMarkdownToDocx(xmlText) ==
  /\ call.fn = "markdownToDocx"
  /\ ret = None
  /\ ret' = markdownToDocx(call.arg, xmlText)
  /\ UNCHANGED <<call, builderVars>>

CallMarkdownToOdt(xmlText) ==
  /\ call.fn = "markdownToOdt"
  /\ ret = None
  /\ ret' = markdownToOdt(call.arg, xmlText)
  /\ UNCHANGED <<call, builderVars>>

Init == InitDocx \/ InitOdt \/ InitMarkdown

Next ==
  \/ \E ops \in Callbacks : DocxContent(ops)
  \/ \E ops \in Callbacks : DocxHeader(ops)
  \/ \E ops \in Callbacks : DocxFooter(ops)
  \/ \E xmlText \in XmlTexts : DocxBuild(xmlText)
  \/ \E ops \in OdtCallbacks : OdtContent(ops)
  \/ \E xmlText \in XmlTexts : OdtBuild(xmlText)
  \/ \E xmlText \in XmlTexts : CallMarkdownToDocx(xmlText)
  \/ \E xmlText \in XmlTexts : CallMarkdownToOdt(xmlText)

Spec == Init /\ [][Next]_vars

(***************************************************************************)
(* SpecZip: createZip applied to every list of files within the bounds     *)
(***************************************************************************)
MaxZipFiles == 2
ZipNames == {<<"a">>, <<"b", "U+00E9">>, <<"U+20AC">>}
ZipDatas == {<<>>, <<0>>, <<80, 75>>, <<255, 1, 97>>}
ZipFileSet == {[name |-> n, data |-> d] : n \in ZipNames, d \in ZipDatas}

InitZip ==
  /\ call \in {[fn |-> "createZip", arg |-> fs] : fs \in SeqsUpTo(ZipFileSet, MaxZipFiles)}
  /\ ret = None
  /\ NoBuilder

CallCreateZip ==
  /\ call.fn = "createZip"
  /\ ret = None
  /\ ret' = createZip(call.arg)
  /\ UNCHANGED <<call, builderVars>>

NextZip == CallCreateZip

SpecZip == InitZip /\ [][NextZip]_vars

(***************************************************************************)
(* Reading an archive: fields at byte offsets counted from 0               *)
(***************************************************************************)
U16At(z, off) == z[off + 1] + 256 * z[off + 2]

U32At(z, off) ==
  z[off + 1] + 256 * z[off + 2] + 65536 * z[off + 3] + 16777216 * z[off + 4]

\* The archive z is the ZIP layout of the files fs (names as strings).
ZipLayout(fs, z) ==
  LET n == Len(fs)
      nameB(i) == TextEncode(fs[i].name)
      localLen(i) == 30 + Len(nameB(i)) + Len(fs[i].data)
      localStart(i) == SumSeq([j \in 1..(i - 1) |-> localLen(j)])
      cdOffset == localStart(n + 1)
      cdStart(i) == cdOffset + SumSeq([j \in 1..(i - 1) |-> 46 + Len(nameB(j))])
      cdSize == cdStart(n + 1) - cdOffset
      endStart == cdOffset + cdSize
  IN /\ Len(z) = cdOffset + cdSize + 22
     /\ \A i \in 1..n :
          LET ls == localStart(i)
              cs == cdStart(i)
              nl == Len(nameB(i))
              dl == Len(fs[i].data)
          IN /\ Slice(z, ls, 4) = <<80, 75, 3, 4>>
             /\ Slice(z, ls + 14, 4) = SetUint32W(RefCrc32(fs[i].data))
             /\ U32At(z, ls + 18) = dl
             /\ U32At(z, ls + 22) = dl
             /\ U16At(z, ls + 26) = nl
             /\ Slice(z, ls + 30, nl) = nameB(i)
             /\ Slice(z, ls + 30 + nl, dl) = fs[i].data
             /\ Slice(z, cs, 4) = <<80, 75, 1, 2>>
             /\ Slice(z, cs + 16, 12) = Slice(z, ls + 14, 12)
             /\ U16At(z, cs + 28) = nl
             /\ U32At(z, cs + 42) = ls
             /\ Slice(z, cs + 46, nl) = nameB(i)
     /\ Slice(z, endStart, 4) = <<80, 75, 5, 6>>
     /\ U32At(z, endStart + 12) = cdSize
     /\ U32At(z, endStart + 16) = cdOffset

\* The records of an archive read from byte 0 on, each found by its signature
\* and skipped by the lengths it states: on [pos, recs, ok].
RECURSIVE ZipWalk(_, _)
ZipWalk(z, st) ==
  IF st.pos = Len(z) \/ ~st.ok THEN st
  ELSE IF st.pos + 4 > Len(z) THEN [st EXCEPT !.ok = FALSE]
  ELSE
    LET sig == Slice(z, st.pos, 4)
        size == CASE sig = <<80, 75, 3, 4>> ->
                       30 + U16At(z, st.pos + 26) + U16At(z, st.pos + 28) + U32At(z, st.pos + 18)
                  [] sig = <<80, 75, 1, 2>> ->
                       46 + U16At(z, st.pos + 28) + U16At(z, st.pos + 30) + U16At(z, st.pos + 32)
                  [] sig = <<80, 75, 5, 6>> -> 22 + U16At(z, st.pos + 20)
                  [] OTHER -> 0
    IN IF size = 0 \/ st.pos + size > Len(z) THEN [st EXCEPT !.ok = FALSE]
       ELSE ZipWalk(z, [pos |-> st.pos + size,
                        recs |-> Append(st.recs, [sig |-> sig[3], pos |-> st.pos]),
                        ok |-> TRUE])

ZipRecords(z) == ZipWalk(z, [pos |-> 0, recs |-> <<>>, ok |-> TRUE])

\* The archive z is well formed and holds n entries: it starts with a local
\* file header, its records are n local headers, n central records and one
\* end record, and both entry counts of the end record are n.
ZipHolds(z, n) ==
  LET w == ZipRecords(z)
      ends == {k \in 1..Len(w.recs) : w.recs[k].sig = 5}
  IN /\ Slice(z, 0, 4) = <<80, 75, 3, 4>>
     /\ w.ok
     /\ Cardinality(ends) = 1
     /\ Cardinality({k \in 1..Len(w.recs) : w.recs[k].sig = 3}) = n
     /\ Cardinality({k \in 1..Len(w.recs) : w.recs[k].sig = 1}) = n
     /\ \A k \in ends :
          /\ U16At(z, w.recs[k].pos + 8) = n
          /\ U16At(z, w.recs[k].pos + 10) = n

\* build() or a markdown converter has returned an archive.
HasArchive == call.fn \in {"docx", "odt", "markdownToDocx", "markdownToOdt"} /\ "zip" \in DOMAIN ret

\* C1: every archive returned by docx().build(), odt().build(), markdownToDocx
\* and markdownToOdt starts with the bytes 50 4B 03 04 and holds exactly one
\* end-of-central-directory record, both of whose entry counts are the number
\* of parts handed to createZip.
C1_ArchiveFraming == HasArchive => ZipHolds(ret.zip, Len(ret.files))

\* docx().build() has returned an archive with header, footer and media.
C1_Witness ==
  /\ HasArchive /\ call.fn = "docx"
  /\ hasHeader /\ hasFooter
  /\ Len(mainCtx.images) + Len(headerCtx.images) + Len(footerCtx.images) >= 2

\* C2: createZip lays the local headers and data out in input order; the i-th
\* central record repeats the name, CRC-32 and sizes of the i-th local header
\* and holds the offset at which that header starts; the end record holds the
\* offset and the size of the central directory, and the archive is
\* offset + size + 22 bytes long.
C2_ZipLayout ==
  (call.fn = "createZip" /\ ret # None) => ZipLayout(call.arg, ret)

\* createZip has returned for two files, the first with a multi-byte name and
\* with data, so that the second local header starts past byte 30.
C2_Witness ==
  /\ call.fn = "createZip" /\ ret # None
  /\ Len(call.arg) = 2
  /\ call.arg[1].name = <<"b", "U+00E9">>
  /\ Len(call.arg[1].data) = 3

(***************************************************************************)
(* Reading a package: its entries and what its XML parts hold              *)
(***************************************************************************)
HasFile(files, name) == \E k \in 1..Len(files) : files[k].name = name

FileXml(files, name) == files[CHOOSE k \in 1..Len(files) : files[k].name = name].xml

\* The children named x of the paragraphs of a body, in document order.
BodyChildren(body, x) ==
  SelectSeq(Flatten([k \in 1..Len(body) |->
                       IF "content" \in DOMAIN body[k] THEN body[k].content ELSE <<>>]),
            LAMBDA c : c.x = x)

ElementsOfType(elements, type) == SelectSeq(elements, LAMBDA e : e.type = type)

RelsOfType(rels, type) == SelectSeq(rels, LAMBDA r : r.Type = type)

\* The entity of one character of a text, the character itself if it has none.
RefEntity(c) ==
  CASE c = "&" -> <<"&", "a", "m", "p", ";">>
    [] c = "<" -> <<"&", "l", "t", ";">>
    [] c = ">" -> <<"&", "g", "t", ";">>
    [] c = "\"" -> <<"&", "q", "u", "o", "t", ";">>
    [] c = "'" -> <<"&", "a", "p", "o", "s", ";">>
    [] OTHER -> <<c>>

RefEscape(str) == Flatten([k \in 1..Len(str) |-> RefEntity(str[k])])

\* docx().build() has returned an archive.
DocxBuilt == call.fn = "docx" /\ "zip" \in DOMAIN ret

\* The three parts of a built DOCX package: the context of each, whether the
\* package is to hold it, the names of its entry and of its relationships.
DocxParts ==
  <<[ctx |-> mainCtx, has |-> TRUE, name |-> NameDocument, rels |-> NameDocumentRels],
    [ctx |-> headerCtx, has |-> hasHeader, name |-> NameHeader, rels |-> NameHeaderRels],
    [ctx |-> footerCtx, has |-> hasFooter, name |-> NameFooter, rels |-> NameFooterRels]>>

\* The docPr ids of the drawings of the three parts of the built package.
PackageDocPrIds ==
  Flatten([p \in 1..3 |->
    IF HasFile(ret.files, DocxParts[p].name)
    THEN LET ds == BodyChildren(FileXml(ret.files, DocxParts[p].name).body, "w:drawing")
         IN [k \in 1..Len(ds) |-> ds[k].docPr]
    ELSE <<>>])

ImageIds(ctx) ==
  LET els == ElementsOfType(ctx.elements, "image")
  IN [k \in 1..Len(els) |-> els[k].docPrId]

NumImageCalls ==
  Len(ImageIds(mainCtx)) + Len(ImageIds(headerCtx)) + Len(ImageIds(footerCtx))

\* The images a step adds to a context take the numbers after those given to
\* the images of all three contexts before it, in call order.
ImagesNumberedOn(old, new, before) ==
  /\ Len(new) >= Len(old)
  /\ SubSeq(new, 1, Len(old)) = old
  /\ \A j \in (Len(old) + 1)..Len(new) : new[j] = before + (j - Len(old))

\* C5: the docPr ids of the images of body, header and footer of one docx()
\* builder are pairwise distinct: the k-th image() call on the builder, counted
\* over the three parts, gets id k.
C5_DocPrIdsUnique ==
  /\ [](DocxBuilt =>
          /\ \A i, j \in 1..Len(PackageDocPrIds) :
               i # j => PackageDocPrIds[i] # PackageDocPrIds[j]
          /\ {PackageDocPrIds[k] : k \in 1..Len(PackageDocPrIds)} = 1..NumImageCalls)
  /\ [][call.fn = "docx" =>
          /\ ImagesNumberedOn(ImageIds(mainCtx), ImageIds(mainCtx'), NumImageCalls)
          /\ ImagesNumberedOn(ImageIds(headerCtx), ImageIds(headerCtx'), NumImageCalls)
          /\ ImagesNumberedOn(ImageIds(footerCtx), ImageIds(footerCtx'), NumImageCalls)]_vars

\* A package is built whose body, header and footer hold one image each.
C5_Witness ==
  /\ DocxBuilt
  /\ Len(ImageIds(mainCtx)) = 1 /\ Len(ImageIds(headerCtx)) = 1 /\ Len(ImageIds(footerCtx)) = 1
  /\ Len(PackageDocPrIds) = 3

\* The relationships of a part of the built package: none without the file.
PartRels(part) ==
  IF HasFile(ret.files, part.rels) THEN FileXml(ret.files, part.rels).rels ELSE <<>>

\* In one part: the relationship Ids are pairwise distinct, and the k-th
\* hyperlink (image) of the body refers to the k-th hyperlink (image)
\* relationship, which targets the escaped url of the k-th link() call.
PartRelsConsistent(part) ==
  LET rels == PartRels(part)
      body == FileXml(ret.files, part.name).body
      links == BodyChildren(body, "w:hyperlink")
      draws == BodyChildren(body, "w:drawing")
      linkRels == RelsOfType(rels, "hyperlink")
      imageRels == RelsOfType(rels, "image")
      linkEls == ElementsOfType(part.ctx.elements, "link")
  IN /\ \A i, j \in 1..Len(rels) : i # j => rels[i].Id # rels[j].Id
     /\ Len(links) = Len(linkRels) /\ Len(links) = Len(linkEls)
     /\ \A k \in 1..Len(links) :
          /\ links[k].rId = linkRels[k].Id
          /\ linkRels[k].Target = RefEscape(linkEls[k].url)
     /\ Len(draws) = Len(imageRels)
     /\ \A k \in 1..Len(draws) : draws[k].embed = imageRels[k].Id

\* C6: within each part of a docx() package the relationship Ids of the part's
\* relationship file are pairwise distinct (rId1, rId2, rIdHeader and rIdFooter
\* included for the main part), and every hyperlink and image of the part
\* refers to the Id of the relationship made for it.
C6_RelIdsUnique ==
  DocxBuilt => \A p \in 1..3 : DocxParts[p].has => PartRelsConsistent(DocxParts[p])

\* A package is built whose body holds a list (so rId2 is taken), a link and
\* an image, with a header.
C6_Witness ==
  /\ DocxBuilt /\ hasHeader
  /\ Len(ElementsOfType(mainCtx.elements, "list")) = 1
  /\ Len(mainCtx.hyperlinks) = 1 /\ Len(mainCtx.images) = 1

\* The extension the claims expect for the image data of this model.
RefExt(data) ==
  IF data = PngData THEN <<"p", "n", "g">> ELSE <<"j", "p", "e", "g">>

\* The data of the image() calls: body first, then header, then footer.
ImageCallData ==
  LET els == ElementsOfType(mainCtx.elements, "image")
               \o ElementsOfType(headerCtx.elements, "image")
               \o ElementsOfType(footerCtx.elements, "image")
  IN [k \in 1..Len(els) |-> els[k].data]

MediaFiles == SelectSeq(ret.files, LAMBDA f : "data" \in DOMAIN f)

\* C7: build() stores one entry word/media/imageN.<ext> per image() call,
\* N = 1..n without gap, body images first, then header, then footer images,
\* <ext> the type of the image.
C7_MediaEntries ==
  DocxBuilt =>
    /\ Len(MediaFiles) = Len(ImageCallData)
    /\ \A i \in 1..Len(MediaFiles) :
         /\ MediaFiles[i].name
              = NameMediaPrefix \o Digits(i) \o <<".">> \o RefExt(ImageCallData[i])
         /\ MediaFiles[i].data = ImageCallData[i]

\* A package is built from an image in the footer, then one in the header,
\* then one in the body, of two types.
C7_Witness ==
  /\ DocxBuilt
  /\ ImageIds(footerCtx) = <<1>> /\ ImageIds(headerCtx) = <<2>> /\ ImageIds(mainCtx) = <<3>>
  /\ mainCtx.images[1].data = JpegData /\ footerCtx.images[1].data = PngData

\* docx().build() or markdownToDocx has returned an archive.
DocxArchive == call.fn \in {"docx", "markdownToDocx"} /\ "zip" \in DOMAIN ret

\* The elements of the main body of the document the archive was made from.
MainElements ==
  IF call.fn = "docx" THEN mainCtx.elements ELSE parseMarkdownToElements(call.arg).elements

MainHasList == \E k \in 1..Len(MainElements) : MainElements[k].type \in {"list", "richList"}

\* C8: a DOCX archive holds word/numbering.xml, the content-type override of
\* that part and the numbering relationship of the document if and only if the
\* main body has a list element (a builder list or a markdown list); without
\* one it holds none of the three.
C8_NumberingIffList ==
  DocxArchive =>
    LET overrides == FileXml(ret.files, NameContentTypes).overrides
        rels == FileXml(ret.files, NameDocumentRels).rels
    IN /\ HasFile(ret.files, NameNumbering) <=> MainHasList
       /\ (\E k \in 1..Len(overrides) : overrides[k] = "/word/numbering.xml") <=> MainHasList
       /\ Len(RelsOfType(rels, "numbering")) = (IF MainHasList THEN 1 ELSE 0)

\* A package is built by a builder whose body holds a list beside a link.
C8_Witness ==
  /\ DocxBuilt
  /\ Len(ElementsOfType(mainCtx.elements, "list")) = 1
  /\ Len(ElementsOfType(mainCtx.elements, "link")) = 1
  /\ HasFile(ret.files, NameNumbering)

\* C9: word/header1.xml is in the archive iff header() was called on the
\* builder; word/_rels/header1.xml.rels is in it iff moreover the header holds
\* a link or an image, and then it lists one relationship per link and per
\* image of the header and no other.  The same for the footer.
C9_HeaderFooterParts ==
  DocxBuilt =>
    \A p \in 2..3 :
      LET part == DocxParts[p]
          nLinks == Len(ElementsOfType(part.ctx.elements, "link"))
          nImages == Len(ElementsOfType(part.ctx.elements, "image"))
          rels == PartRels(part)
      IN /\ HasFile(ret.files, part.name) <=> part.has
         /\ HasFile(ret.files, part.rels) <=> (part.has /\ nLinks + nImages > 0)
         /\ HasFile(ret.files, part.rels) =>
              /\ Len(RelsOfType(rels, "hyperlink")) = nLinks
              /\ Len(RelsOfType(rels, "image")) = nImages
              /\ Len(rels) = nLinks + nImages

\* A package is built after header() gave a link and an image and footer() a
\* list only: the header has its relationships, the footer has none.
C9_Witness ==
  /\ DocxBuilt /\ hasHeader /\ hasFooter
  /\ Len(headerCtx.hyperlinks) = 1 /\ Len(headerCtx.images) = 1
  /\ Len(footerCtx.elements) = 1 /\ Len(footerCtx.hyperlinks) = 0 /\ Len(footerCtx.images) = 0
  /\ HasFile(ret.files, NameHeaderRels) /\ ~HasFile(ret.files, NameFooterRels)

\* odt().build() or markdownToOdt has returned an archive.
OdtArchive == call.fn \in {"odt", "markdownToOdt"} /\ "zip" \in DOMAIN ret

\* The bytes of the text application/vnd.oasis.opendocument.text
MimetypeBytes ==
    <<97, 112, 112, 108, 105, 99, 97, 116, 105, 111, 110, 47, 118, 110,
    100, 46, 111, 97, 115, 105, 115, 46, 111, 112, 101, 110, 100, 111, 99,
    117, 109, 101, 110, 116, 46, 116, 101, 120, 116>>

\* The names of the four entries of an ODT package, as bytes.
OdtEntryNames ==
  <<TextEncode(NameMimetype), TextEncode(NameManifest), TextEncode(NameContent),
    TextEncode(NameOdtStyles)>>

\* The names the records of one kind state, in the order of the archive; the
\* name is at byte nameAt of a record, its length at byte lenAt.
ZipNamesOf(z, sig, lenAt, nameAt) ==
  LET recs == SelectSeq(ZipRecords(z).recs, LAMBDA r : r.sig = sig)
  IN [k \in 1..Len(recs) |->
        Slice(z, recs[k].pos + nameAt, U16At(z, recs[k].pos + lenAt))]

\* C10: every ODT archive, of odt().build() or of markdownToOdt, holds the
\* four entries mimetype, META-INF/manifest.xml, content.xml, styles.xml in
\* that order and no other; its first entry is mimetype, stored with
\* compression method 0, its data the text
\* application/vnd.oasis.opendocument.text.
C10_OdtEntries ==
  OdtArchive =>
    /\ ZipNamesOf(ret.zip, 3, 26, 30) = OdtEntryNames
    /\ ZipNamesOf(ret.zip, 1, 28, 46) = OdtEntryNames
    /\ U16At(ret.zip, 8) = 0
    /\ U32At(ret.zip, 18) = Len(MimetypeBytes)
    /\ U32At(ret.zip, 22) = Len(MimetypeBytes)
    /\ Slice(ret.zip, 30 + Len(OdtEntryNames[1]), Len(MimetypeBytes)) = MimetypeBytes

\* markdownToOdt has returned an archive for the empty string.
C10_Witness == call.fn = "markdownToOdt" /\ call.arg = <<>> /\ "zip" \in DOMAIN ret

(***************************************************************************)
(* SpecEsc: one text-bearing element rendered to DOCX and to ODT           *)
(***************************************************************************)
MaxTextLen == 2
EscChars == {"&", "<", ">", "\"", "'", "a"}
EscKinds ==
  {"heading", "paragraph", "text", "list", "table", "link", "richParagraph",
   "richList", "richTable", "blockquote", "codeBlock"}

\* The element of a kind that bears the text t.
EscElement(kind, t) ==
  CASE kind = "heading" -> [type |-> "heading", text |-> t, level |-> 1]
    [] kind = "paragraph" -> [type |-> "paragraph", text |-> t, opts |-> NoOpts]
    [] kind = "text" -> [type |-> "text", text |-> t, size |-> 12, opts |-> NoOpts]
    [] kind = "list" -> [type |-> "list", items |-> <<t>>, ordered |-> FALSE]
    [] kind = "table" -> [type |-> "table", rows |-> <<<<t>>>>, opts |-> NoOpts]
    [] kind = "link" ->
         [type |-> "link", text |-> t, url |-> <<"u">>, opts |-> NoOpts, rId |-> rIdOf(10)]
    [] kind = "richParagraph" ->
         [type |-> "richParagraph", runs |-> <<[text |-> t, opts |-> [bold |-> TRUE]]>>]
    [] kind = "richList" ->
         [type |-> "richList", ordered |-> TRUE,
          items |-> <<[runs |-> <<[text |-> t, opts |-> NoOpts]>>, children |-> Undefined]>>]
    [] kind = "richTable" ->
         [type |-> "richTable", rows |-> <<<<<<[text |-> t, opts |-> NoOpts]>>>>>>]
    [] kind = "blockquote" ->
         [type |-> "blockquote", runs |-> <<[text |-> t, opts |-> NoOpts]>>]
    [] kind = "codeBlock" -> [type |-> "codeBlock", code |-> t, language |-> Undefined]

InitEsc ==
  /\ call \in {[fn |-> f, arg |-> [kind |-> k, text |-> t]] :
                 f \in {"buildDocxBody", "generateOdtContent"},
                 k \in EscKinds, t \in SeqsUpTo(EscChars, MaxTextLen)}
  /\ ret = None
  /\ NoBuilder

CallBuildDocxBody ==
  /\ call.fn = "buildDocxBody"
  /\ ret = None
  /\ ret' = [body |-> buildDocxBody(<<EscElement(call.arg.kind, call.arg.text)>>)]
  /\ UNCHANGED <<call, builderVars>>

CallGenerateOdtContent ==
  /\ call.fn = "generateOdtContent"
  /\ ret = None
  /\ ret' = [body |-> generateOdtContent(<<EscElement(call.arg.kind, call.arg.text)>>).body]
  /\ UNCHANGED <<call, builderVars>>

NextEsc == CallBuildDocxBody \/ CallGenerateOdtContent

SpecEsc == InitEsc /\ [][NextEsc]_vars

\* The character data of the runs among the children of a DOCX paragraph, a
\* hyperlink opened.
DocxRunTexts(children) ==
  Flatten([k \in 1..Len(children) |->
    IF children[k].x = "w:r" THEN <<children[k].t>>
    ELSE IF children[k].x = "w:hyperlink"
         THEN [j \in 1..Len(children[k].content) |-> children[k].content[j].t]
         ELSE <<>>])

\* The character data a DOCX body holds, in document order.
DocxTexts(body) ==
  Flatten([k \in 1..Len(body) |->
    IF body[k].x = "w:tbl"
    THEN Flatten([r \in 1..Len(body[k].rows) |->
           Flatten([i \in 1..Len(body[k].rows[r]) |-> DocxRunTexts(body[k].rows[r][i].p)])])
    ELSE IF "content" \in DOMAIN body[k] THEN DocxRunTexts(body[k].content)
    ELSE <<>>])

\* The character data among the children of an ODT paragraph, a link opened.
OdtChildTexts(children) ==
  Flatten([k \in 1..Len(children) |->
    IF children[k].x = "text:a"
    THEN [j \in 1..Len(children[k].content) |-> children[k].content[j].t]
    ELSE <<children[k].t>>])

RECURSIVE OdtListTexts(_)
OdtListTexts(list) ==
  Flatten([k \in 1..Len(list.items) |->
    OdtChildTexts(list.items[k].p.content)
    \o Flatten([j \in 1..Len(list.items[k].list) |-> OdtListTexts(list.items[k].list[j])])])

\* The character data an ODT body holds, in document order.
OdtTexts(body) ==
  Flatten([k \in 1..Len(body) |->
    CASE body[k].x = "text:list" -> OdtListTexts(body[k])
      [] body[k].x = "table:table" ->
           Flatten([r \in 1..Len(body[k].rows) |->
             Flatten([i \in 1..Len(body[k].rows[r]) |->
                        OdtChildTexts(body[k].rows[r][i].content)])])
      [] OTHER -> OdtChildTexts(body[k].content)])

Entities == {RefEntity(c) : c \in {"&", "<", ">", "\"", "'"}}

\* No raw <, >, " or ' in w, and every & of w opens an entity.
WellEscaped(w) ==
  \A i \in 1..Len(w) :
    /\ w[i] \notin {"<", ">", "\"", "'"}
    /\ w[i] = "&" => \E e \in Entities : StartsWith(Drop(w, i - 1), e)

\* The render of the element of the call has returned.
Rendered == call.fn \in {"buildDocxBody", "generateOdtContent"} /\ ret # None

RenderedTexts ==
  IF call.fn = "buildDocxBody" THEN DocxTexts(ret.body) ELSE OdtTexts(ret.body)

\* C4: the text of a text-bearing element (heading, paragraph, sized text,
\* list item, table cell, link text, run text, code line) is written to the
\* DOCX and to the ODT XML with no raw <, >, " or ' and no & but the first
\* character of an entity: every special character of the input is replaced
\* by its own entity, exactly once.
C4_TextEscaped ==
  Rendered =>
    /\ RenderedTexts = <<RefEscape(call.arg.text)>>
    /\ WellEscaped(RenderedTexts[1])

\* A table cell holding an ampersand before a less-than sign is rendered to ODT.
C4_Witness ==
  /\ Rendered /\ call.fn = "generateOdtContent"
  /\ call.arg.kind = "table" /\ call.arg.text = <<"&", "<">>

(***************************************************************************)
(* SpecBlock: parseBlockLines applied to every list of lines within the    *)
(* bounds, and the DOCX body made of the blocks it returns                 *)
(***************************************************************************)
MaxBlockLines == 3

\* The lines a list of lines is made of.
BlockLineSet ==
  {<<>>,
   <<"a">>,
   <<"-", " ", "a">>,
   <<" ", " ", "-", " ", "b">>,
   <<" ", " ", " ", " ", "-", " ", "c">>,
   <<"1", ".", " ", "d">>,
   <<" ", " ", "1", ".", " ", "e">>,
   <<"#", " ", "a">>,
   <<"#", "#", "#", " ", "a">>,
   <<"#", "#", "#", "#", " ", "a">>,
   <<"#", "#", "#", "#", "#", "#", "#", " ", "a">>,
   <<"#", " ", "a", "\r", "b">>,
   <<">", " ", "a">>,
   <<"|", "a", "|">>,
   <<"-", "-", "-">>,
   <<"U+0060", "U+0060", "U+0060">>}

\* Longer lists: "- a", "  - b", "    - c", "  - b", "- a", then an ordered
\* list of two levels, then bullets that own ordered and unordered sub-lists.
ListSamples ==
  LET a == <<"-", " ", "a">>
      b == <<" ", " ", "-", " ", "b">>
      c == <<" ", " ", " ", " ", "-", " ", "c">>
      d == <<"1", ".", " ", "d">>
      e == <<" ", " ", "1", ".", " ", "e">>
  IN {<<a, b, c, b, a>>, <<d, e, e, d>>, <<a, e, e, a, b>>, <<a, b, c, a>>}

\* Quotes that hold other blocks than paragraphs: "> # a", then "> a" with
\* "> - b" below it, then "> a" with "> # a" below it and "c" after the quote.
QuoteSamples ==
  LET q(l) == <<">", " ">> \o l
  IN {<<q(<<"#", " ", "a">>)>>,
      <<q(<<"a">>), q(<<"-", " ", "b">>)>>,
      <<q(<<"a">>), q(<<"#", " ", "a">>), <<"c">>>>}

InitBlock ==
  /\ call \in {[fn |-> "parseBlockLines", arg |-> ls] :
                 ls \in SeqsUpTo(BlockLineSet, MaxBlockLines) \cup ListSamples
                          \cup QuoteSamples}
  /\ ret = None
  /\ NoBuilder

\* parseBlockLines(lines): the blocks and the line cursor it ends on, or threw.
CallParseBlockLines ==
  /\ call.fn = "parseBlockLines"
  /\ ret = None
  /\ ret' = parseBlockLines(call.arg)
  /\ UNCHANGED <<call, builderVars>>

\* buildDocxBody(astToElements(blocks)) on the blocks the parser returned.
CallAstToDocxBody ==
  /\ call.fn = "parseBlockLines"
  /\ ret # None
  /\ ~ret.threw
  /\ "body" \notin DOMAIN ret
  /\ ret' = [i |-> ret.i, blocks |-> ret.blocks, threw |-> FALSE,
             body |-> buildDocxBody(astToElements(ret.blocks))]
  /\ UNCHANGED <<call, builderVars>>

NextBlock == CallParseBlockLines \/ CallAstToDocxBody

SpecBlock == InitBlock /\ [][NextBlock]_vars

\* parseBlockLines has returned, or thrown.
BlockParsed == call.fn = "parseBlockLines" /\ ret # None

\* The number of '#' a line starts with when a space and a text of ordinary
\* characters follow them; 0 for any other line.
HashCount(line) ==
  LET n == LeadingIn(line, {"#"})
  IN IF /\ n >= 1 /\ n < Len(line) /\ line[n + 1] = " "
        /\ \A k \in (n + 2)..Len(line) : line[k] \notin LineTerminators
     THEN n ELSE 0

\* C11: a first line of 1 to 6 '#' and a space becomes a heading block whose
\* level is the number of '#'; with more than 6 '#' it becomes a heading of
\* level 6.
C11_HeadingLevels ==
  (BlockParsed /\ Len(call.arg) >= 1 /\ HashCount(call.arg[1]) >= 1) =>
    /\ ~ret.threw
    /\ Len(ret.blocks) >= 1
    /\ ret.blocks[1].tag = "h"
    /\ ret.blocks[1].level = (IF HashCount(call.arg[1]) < 6 THEN HashCount(call.arg[1]) ELSE 6)

(***************************************************************************)
(* SpecRender: one heading of any level, or one paragraph, sized text or   *)
(* run under a set of text options, rendered to DOCX and to ODT            *)
(***************************************************************************)
MaxOptions == 2   \* text options set on one element

\* The options of TextOptions and a value for each.
OptionNames ==
  {"align", "bold", "italic", "underline", "strikethrough", "code", "color", "font", "size"}

OptionValue(k) ==
  CASE k = "align" -> "center"
    [] k = "color" -> <<"#", "F", "0", "0">>
    [] k = "font" -> <<"A", "r", "i", "a", "l">>
    [] k = "size" -> 12
    [] OTHER -> TRUE

\* The TextOptions object that sets the options of a set.
OptionsOf(names) == [k \in names |-> OptionValue(k)]

OptionSets(names) == {S \in SUBSET names : Cardinality(S) <= MaxOptions}

\* The options tokensToRuns gives a run: a link sets color and underline.
RunOptionSets ==
  {S \in SUBSET {"bold", "italic", "strikethrough", "code", "color", "underline"} :
     /\ Cardinality({k \in S : k \in {"bold", "italic", "strikethrough", "code"}}) <= MaxOptions
     /\ ("color" \in S) = ("underline" \in S)}

HeadingLevels == 1..6

RenderElements ==
  {[type |-> "heading", text |-> <<"h">>, level |-> l] : l \in HeadingLevels}
  \cup {[type |-> "paragraph", text |-> <<"p">>, opts |-> OptionsOf(S)] : S \in OptionSets(OptionNames)}
  \cup {[type |-> "text", text |-> <<"t">>, size |-> 14, opts |-> OptionsOf(S)] :
          S \in OptionSets(OptionNames)}
  \cup {[type |-> "richParagraph", runs |-> <<[text |-> <<"r">>, opts |-> OptionsOf(S)]>>] :
          S \in RunOptionSets}

InitRender ==
  /\ call \in {[fn |-> f, element |-> el] :
                 f \in {"buildDocxBody", "generateOdtContent"}, el \in RenderElements}
  /\ ret = None
  /\ NoBuilder

\* buildDocxBody([element])
RenderDocxBody ==
  /\ call.fn = "buildDocxBody"
  /\ "element" \in DOMAIN call
  /\ ret = None
  /\ ret' = [body |-> buildDocxBody(<<call.element>>)]
  /\ UNCHANGED <<call, builderVars>>

\* generateOdtContent([element]), beside the styles.xml of the package
RenderOdtContent ==
  /\ call.fn = "generateOdtContent"
  /\ "element" \in DOMAIN call
  /\ ret = None
  /\ ret' = [content |-> generateOdtContent(<<call.element>>), styles |-> ODT_STYLES]
  /\ UNCHANGED <<call, builderVars>>

NextRender == RenderDocxBody \/ RenderOdtContent

SpecRender == InitRender /\ [][NextRender]_vars

\* The half-point sizes of DOCX headings and the point sizes of ODT headings
\* that the claim states.
RefHeadingHalfPoints == <<48, 36, 28, 24, 20, 18>>
RefHeadingPoints == <<24, 18, 14, 12, 10, 9>>

RefHeadingStyle(level) ==
  CASE level = 1 -> "Heading1" [] level = 2 -> "Heading2" [] level = 3 -> "Heading3"
    [] level = 4 -> "Heading4" [] level = 5 -> "Heading5" [] level = 6 -> "Heading6"

\* A heading has been rendered by the function named.
HeadingRendered(fn) ==
  /\ call.fn = fn /\ "element" \in DOMAIN call
  /\ call.element.type = "heading"
  /\ ret # None

\* C12: for each level 1 to 6 the DOCX heading paragraph has style HeadingN
\* and a run of w:sz 48, 36, 28, 24, 20, 18; the ODT heading has style
\* HeadingN, which styles.xml defines with font size 24, 18, 14, 12, 10, 9 pt.
\* The value of w:sz is compared as the text the template writes.
C12_HeadingSizes ==
  /\ HeadingRendered("buildDocxBody") =>
       LET p == ret.body[1]
           level == call.element.level
       IN /\ p.pPr.pStyle = <<"Heading", level>>
          /\ \E k \in 1..Len(p.content[1].rPr) :
               /\ p.content[1].rPr[k].x = "w:sz"
               /\ ToString(p.content[1].rPr[k].val) = ToString(RefHeadingHalfPoints[level])
  /\ HeadingRendered("generateOdtContent") =>
       LET h == ret.content.body[1]
           level == call.element.level
       IN /\ h.style = <<"Heading", level>>
          /\ \E k \in 1..Len(ret.styles.styles) :
               /\ ret.styles.styles[k].name = RefHeadingStyle(level)
               /\ "fontSize" \in DOMAIN ret.styles.styles[k]
               /\ ret.styles.styles[k].fontSize = RefHeadingPoints[level]

(***************************************************************************)
(* SpecImage: detectImageType applied to every byte array within the       *)
(* bounds and to RIFF containers                                           *)
(***************************************************************************)
MaxImageLen == 4

\* The bytes the signatures are made of, and one that is in none.
ImageBytes == {137, 80, 78, 71, 255, 216, 73, 70, 82, 0}

Riff == <<82, 73, 70, 70>>
Webp == <<87, 69, 66, 80>>

\* RIFF containers: a 12-byte header of RIFF, a size and a tag, whole or cut
\* short, and one with the tag where the size belongs.
RiffData ==
  {SubSeq(Riff \o size \o tag, 1, n) :
     size \in {<<0, 0, 0, 0>>, Webp}, tag \in {Webp, <<87, 65, 86, 69>>, <<87, 69, 66, 0>>},
     n \in 8..12}
  \cup {Riff \o <<0, 0, 0, 0>> \o Webp \o <<86, 80, 56, 32>>}

ImageData == SeqsUpTo(ImageBytes, MaxImageLen) \cup RiffData

InitImage ==
  /\ call \in {[fn |-> "detectImageType", arg |-> data] : data \in ImageData}
  /\ ret = None
  /\ NoBuilder

CallDetectImageType ==
  /\ call.fn = "detectImageType"
  /\ ret = None
  /\ ret' = [type |-> detectImageType(call.arg)]
  /\ UNCHANGED <<call, builderVars>>

NextImage == CallDetectImageType

SpecImage == InitImage /\ [][NextImage]_vars

\* data begins with the bytes of sig.
BeginsWith(data, sig) == Len(data) >= Len(sig) /\ SubSeq(data, 1, Len(sig)) = sig

\* RIFF at bytes 0-3 and WEBP at bytes 8-11.
IsWebpContainer(data) ==
  /\ BeginsWith(data, Riff)
  /\ Len(data) >= 12 /\ SubSeq(data, 9, 12) = Webp

ImageTyped == call.fn = "detectImageType" /\ ret # None

\* C13 as stated: jpeg for data beginning FF D8, gif for data beginning
\* 47 49 46, webp for a RIFF container tagged WEBP, and png for everything
\* else, the data beginning 89 50 4E 47 included.
C13_AsStated ==
  ImageTyped =>
    ret.type = (IF BeginsWith(call.arg, <<255, 216>>) THEN <<"j", "p", "e", "g">>
                ELSE IF BeginsWith(call.arg, <<71, 73, 70>>) THEN <<"g", "i", "f">>
                ELSE IF IsWebpContainer(call.arg) THEN <<"w", "e", "b", "p">>
                ELSE <<"p", "n", "g">>)

\* C13, amended: detectImageType returns jpeg for data beginning FF D8, gif
\* for data beginning 47 49 whatever the third byte, webp for data with RIFF
\* at bytes 0-3 and WEBP at bytes 8-11, and png for all other data, the
\* empty and the too short included; it returns one of the four for every
\* byte array.
C13_ImageTypes ==
  ImageTyped =>
    ret.type = (IF BeginsWith(call.arg, <<255, 216>>) THEN <<"j", "p", "e", "g">>
                ELSE IF BeginsWith(call.arg, <<71, 73>>) THEN <<"g", "i", "f">>
                ELSE IF IsWebpContainer(call.arg) THEN <<"w", "e", "b", "p">>
                ELSE <<"p", "n", "g">>)

\* A RIFF container with the tag WEBP behind a size that is not the tag has
\* been typed webp.
C13_Witness ==
  /\ ImageTyped
  /\ call.arg = Riff \o <<0, 0, 0, 0>> \o Webp
  /\ ret.type = <<"w", "e", "b", "p">>

(***************************************************************************)
(* parseInline: one line of text, tokenised by parseInlineTokens and made  *)
(* into runs by tokensToRuns.                                              *)
(***************************************************************************)
MaxInlineLen == 3
MaxStyledLen == 6

InlineChars == {"a", " ", "*", "_", "~", "U+0060", "!", "[", "]", "(", ")"}
StyledChars == {"a", "*", "U+0060"}

\* "**a**b", "a![x](u)b", "[a*](u)", "a[x](u)b", "~~a~~b", "**a*b***", "____",
\* "~~~~", "a~~~~b", "a\\"
InlineSamples ==
  {<<"*", "*", "a", "*", "*", "b">>,
   <<"a", "!", "[", "x", "]", "(", "u", ")", "b">>,
   <<"[", "a", "*", "]", "(", "u", ")">>,
   <<"a", "[", "x", "]", "(", "u", ")", "b">>,
   <<"~", "~", "a", "~", "~", "b">>,
   <<"*", "*", "a", "*", "b", "*", "*", "*">>,
   <<"_", "_", "_", "_">>,
   <<"~", "~", "~", "~">>,
   <<"a", "~", "~", "~", "~", "b">>,
   <<"a", "\\">>}

InlineTexts ==
  SeqsUpTo(InlineChars, MaxInlineLen) \cup SeqsUpTo(StyledChars, MaxStyledLen)
    \cup InlineSamples

InitInline ==
  /\ call \in {[fn |-> "parseInline", arg |-> text] : text \in InlineTexts}
  /\ ret = None
  /\ NoBuilder

CallParseInlineTokens ==
  /\ call.fn = "parseInline"
  /\ ret = None
  /\ ret' = [tokens |-> parseInlineTokens(call.arg)]
  /\ UNCHANGED <<call, builderVars>>

CallTokensToRuns ==
  /\ call.fn = "parseInline"
  /\ ret # None
  /\ "runs" \notin DOMAIN ret
  /\ ret' = [tokens |-> ret.tokens, runs |-> tokensToRuns(ret.tokens, NoOpts)]
  /\ UNCHANGED <<call, builderVars>>

NextInline == CallParseInlineTokens \/ CallTokensToRuns

SpecInline == InitInline /\ [][NextInline]_vars

RunsMade == call.fn = "parseInline" /\ ret # None /\ "runs" \in DOMAIN ret

\* The link target of a run, none for a run outside a link.
RunLink(r) == IF "link" \in DOMAIN r THEN <<r.link>> ELSE <<>>

\* Two runs of one style: the same options set and the same link target.
SameStyle(r1, r2) ==
  /\ DOMAIN r1.opts = DOMAIN r2.opts
  /\ \A k \in DOMAIN r1.opts : r1.opts[k] = r2.opts[k]
  /\ RunLink(r1) = RunLink(r2)

\* C14 as stated: in the runs parseInline makes, no two consecutive runs have
\* the same options and the same link target, and "**a**b" gives bold "a"
\* followed by unstyled "b".
C14_AsStated ==
  RunsMade =>
    /\ \A k \in 1..(Len(ret.runs) - 1) : ~SameStyle(ret.runs[k], ret.runs[k + 1])
    /\ call.arg = <<"*", "*", "a", "*", "*", "b">> =>
         ret.runs = <<[text |-> <<"a">>, opts |-> [x \in {"bold"} |-> TRUE]],
                      [text |-> <<"b">>, opts |-> NoOpts]>>

\* The runs of a token list, stretch by stretch: a maximal stretch of
\* adjacent text tokens gives one run, a code token one run, an image none,
\* and a styled token or a link the runs of its children under its style.
RECURSIVE RefRuns(_, _)
RefRuns(tokens, opts) ==
  IF tokens = <<>> THEN <<>>
  ELSE LET t == tokens[1]
           n == LeadingIn([k \in 1..Len(tokens) |-> tokens[k].tag], {"text"})
           under(k) == RefRuns(t.children, With(opts, k, TRUE))
           linked(rs) ==
             [k \in 1..Len(rs) |->
                [text |-> rs[k].text, opts |-> rs[k].opts, link |-> t.href]]
       IN IF n > 0
          THEN <<[text |-> Flatten([k \in 1..n |-> tokens[k].content]), opts |-> opts]>>
                 \o RefRuns(SubSeq(tokens, n + 1, Len(tokens)), opts)
          ELSE (CASE t.tag = "bold" -> under("bold")
                  [] t.tag = "italic" -> under("italic")
                  [] t.tag = "strike" -> under("strikethrough")
                  [] t.tag = "code" ->
                       <<[text |-> t.content, opts |-> With(opts, "code", TRUE)]>>
                  [] t.tag = "link" ->
                       linked(RefRuns(t.children,
                                With(With(opts, "color",
                                          <<"#", "0", "5", "6", "3", "C", "1">>),
                                     "underline", TRUE)))
                  [] t.tag = "image" -> <<>>)
                 \o RefRuns(Tail(tokens), opts)

\* C14, amended: adjacent text tokens are merged before runs are made, at
\* every nesting level, so that a maximal stretch of adjacent text tokens
\* gives exactly one run; "**a**b" gives bold "a" followed by unstyled "b".
C14_TextStretchesMerged ==
  RunsMade =>
    /\ ret.runs = RefRuns(ret.tokens, NoOpts)
    /\ call.arg = <<"*", "*", "a", "*", "*", "b">> =>
         ret.runs = <<[text |-> <<"a">>, opts |-> [x \in {"bold"} |-> TRUE]],
                      [text |-> <<"b">>, opts |-> NoOpts]>>

\* "a*" is tokenised as two text tokens, "a" and the unmatched "*", and made
\* into the one run "a*".
C14_Witness ==
  /\ RunsMade
  /\ call.arg = <<"a", "*">>
  /\ Len(ret.tokens) = 2
  /\ ret.runs = <<[text |-> <<"a", "*">>, opts |-> NoOpts]>>

(***************************************************************************)
(* many(inlineElem), iteration by iteration: ret holds the loop's rest and *)
(* results and whether the loop is at its head or has been left.           *)
(***************************************************************************)
MaxManyLen == 3
LongLen == 1001

\* "!!!...": each "!" that opens no image is one text token, made by one
\* iteration of the loop.
LongText == [k \in 1..LongLen |-> "!"]

ManyTexts == SeqsUpTo(InlineChars, MaxManyLen) \cup InlineSamples

InitMany ==
  /\ call \in {[fn |-> "inlineTokens", arg |-> text] : text \in ManyTexts}
  /\ ret = manyEnter(call.arg)
  /\ NoBuilder

\* The long text beside the short ones.
InitManyLong ==
  /\ call \in {[fn |-> "inlineTokens", arg |-> text] : text \in ManyTexts \cup {LongText}}
  /\ ret = manyEnter(call.arg)
  /\ NoBuilder

ManyIteration ==
  /\ call.fn = "inlineTokens"
  /\ ret.pc = "loop"
  /\ ret' = manyInlineStep(ret, inlineElem(ret.rest))
  /\ UNCHANGED <<call, builderVars>>

NextMany == ManyIteration

InMany == call.fn = "inlineTokens"

SpecMany == InitMany /\ [][NextMany]_vars

SpecManyLong == InitManyLong /\ [][NextMany]_vars

\* The loop runs while it can, it is the only thing the call does:
\* WF_vars(ManyIteration), with ENABLED <<ManyIteration>>_vars written out.
\* An iteration is enabled exactly when the loop is at its head, and it
\* changes ret, which gets a result more or leaves the loop.
ManyFairness == []<>(~(InMany /\ ret.pc = "loop")) \/ []<><<ManyIteration>>_vars

SpecManyFair == SpecMany /\ ManyFairness

ManyReturned == InMany /\ ret.pc = "return"

\* C16 as stated: the repetition performs at most about 1000 iterations on
\* any input, and returns the tokens accumulated when the cap is reached.
C16_IterationCap == InMany => Len(ret.results) <= 1000

\* C16, amended: the repetition has no iteration cap.  It performs one
\* iteration for each element parsed, at most one for each character of the
\* input, and leaves the loop only when the element parser fails on the
\* rest, returning every token accumulated.
C16_NoIterationCap ==
  InMany =>
    /\ Len(ret.results) + Len(ret.rest) <= Len(call.arg)
    /\ ret.pc = "return" => ~inlineElem(ret.rest).ok

\* The loop has returned more than 1000 tokens for a text of more than 1000
\* elements.
C16_Witness ==
  /\ ManyReturned
  /\ call.arg = LongText
  /\ Len(ret.results) = LongLen
  /\ LongLen > 1000

\* An iteration that stays in the loop has parsed an element, and the rest
\* it leaves is shorter than the rest it was given.
ManyConsumes ==
  (ret.pc = "loop" /\ ret'.pc = "loop") => Len(ret'.rest) < Len(ret.rest)

\* C17: every successful application of the element parser consumes at
\* least one character, so the loop is left on every input, texts made of
\* delimiter characters only included, and it is left with a sequence of
\* tokens for the whole input: nothing of the input remains unparsed.
C17_InlineTerminates ==
  /\ [][ManyConsumes]_vars
  /\ [](ManyReturned => (ret.rest = <<>> /\ (call.arg # <<>> => ret.results # <<>>)))
  /\ (InMany => <>ManyReturned)

\* "**", two delimiter characters and nothing else, has been parsed to the
\* two text tokens "*" and "*".
C17_Witness ==
  /\ ManyReturned
  /\ call.arg = <<"*", "*">>
  /\ ret.results = <<TextToken(<<"*">>), TextToken(<<"*">>)>>
  /\ ret.rest = <<>>

(***************************************************************************)
(* Nested lists: the levels of a list read off its lines, beside the tree  *)
(* the parser returns and the paragraphs the DOCX renderer emits.          *)
(***************************************************************************)
IsMarkerLine(l) == IsBullet(l) \/ IsNumberedItem(l)

\* The level a marker line is at: its indentation and the kind of its marker.
LineLevel(l) == [indent |-> Spaces(l), ordered |-> IsNumberedItem(l)]

\* The depth of each line from line k on, open being the levels open above
\* it, outermost first.  A line indented deeper than the line before opens a
\* level below it; any other line continues an open level, of its
\* indentation and marker kind.  Depth -1 ends the sequence at a line that
\* does neither, or is no marker line.
RECURSIVE RefDepths(_, _, _)
RefDepths(lines, k, open) ==
  IF k > Len(lines) THEN <<>>
  ELSE LET lvl == LineLevel(lines[k])
           at == {d \in 1..Len(open) : open[d] = lvl}
       IN IF ~IsMarkerLine(lines[k]) THEN <<-1>>
          ELSE IF open = <<>> \/ lvl.indent > open[Len(open)].indent
          THEN <<Len(open)>> \o RefDepths(lines, k + 1, Append(open, lvl))
          ELSE IF at # {}
          THEN LET d == CHOOSE x \in at : TRUE
               IN <<d - 1>> \o RefDepths(lines, k + 1, SubSeq(open, 1, d))
          ELSE <<-1>>

ListDepths(lines) == RefDepths(lines, 1, <<>>)

\* A list in which each nested level is introduced by a marker line directly
\* below its parent item and indented deeper than it.
WellFormedList(lines) ==
  /\ lines # <<>>
  /\ Len(ListDepths(lines)) = Len(lines)
  /\ \A k \in 1..Len(lines) : ListDepths(lines)[k] >= 0

\* The items of a parsed list in document order, each with its depth and
\* the kind of the list that holds it.
RECURSIVE ItemsPreorder(_, _, _)
ItemsPreorder(items, ordered, depth) ==
  Flatten([k \in 1..Len(items) |->
    <<[depth |-> depth, ordered |-> ordered, content |-> items[k].content]>>
    \o (IF items[k].nested # Undefined
        THEN ItemsPreorder(items[k].nested.items, items[k].nested.ordered, depth + 1)
        ELSE <<>>)])

BodyBuilt == BlockParsed /\ ~ret.threw /\ "body" \in DOMAIN ret

\* C15: for a list in which each nested level is introduced by a marker
\* line directly below its parent item and indented deeper than it, the
\* parser returns one list whose items, in document order, are the lines
\* each at the depth of its level, so the items of a level are siblings and
\* a sub-list belongs to the item directly above it; the DOCX renderer emits
\* one paragraph for each item with w:ilvl equal to that depth.
C15_ListNesting ==
  (BodyBuilt /\ WellFormedList(call.arg)) =>
    LET lines == call.arg
        depths == ListDepths(lines)
    IN /\ Len(ret.blocks) = 1
       /\ ret.blocks[1].tag = (IF IsNumberedItem(lines[1]) THEN "ol" ELSE "ul")
       /\ ItemsPreorder(ret.blocks[1].items, ret.blocks[1].tag = "ol", 0)
            = [k \in 1..Len(lines) |->
                 [depth |-> depths[k],
                  ordered |-> IsNumberedItem(lines[k]),
                  content |-> parseInlineTokens(StripMarker(lines[k]))]]
       /\ Len(ret.body) = Len(lines)
       /\ \A k \in 1..Len(lines) :
            /\ "numPr" \in DOMAIN ret.body[k].pPr
            /\ ret.body[k].pPr.numPr.ilvl = depths[k]

\* "- a", "  - b", "    - c", "  - b", "- a" has been rendered with the
\* levels 0, 1, 2, 1, 0.
C15_Witness ==
  /\ BodyBuilt
  /\ WellFormedList(call.arg)
  /\ ListDepths(call.arg) = <<0, 1, 2, 1, 0>>
  /\ [k \in 1..Len(ret.body) |-> ret.body[k].pPr.numPr.ilvl] = <<0, 1, 2, 1, 0>>

(***************************************************************************)
(* The line cursor of parseBlockLines                                      *)
(***************************************************************************)
\* The cursor at the head of each iteration of the dispatch loop, and the
\* cursor the loop ends on.
RECURSIVE BlockCursors(_, _)
BlockCursors(lines, st) ==
  IF st.threw \/ st.i > Len(lines) THEN <<st.i>>
  ELSE <<st.i>> \o BlockCursors(lines, parseBlockStep(lines, st))

\* C18: parseBlockLines returns on every input, without throwing; every
\* iteration of its dispatch loop moves the line cursor forward by at least
\* one line, and the loop ends with the cursor past the last line.
C18_CursorAdvances ==
  BlockParsed =>
    LET cursors == BlockCursors(call.arg, [i |-> 1, blocks |-> <<>>, threw |-> FALSE])
    IN /\ ~ret.threw
       /\ \A k \in 1..(Len(cursors) - 1) : cursors[k] < cursors[k + 1]
       /\ ret.i > Len(call.arg)

(***************************************************************************)
(* Images and page numbers in an ODT document                              *)
(***************************************************************************)
\* odt().build() has returned an archive.
OdtBuilt == call.fn = "odt" /\ "zip" \in DOMAIN ret

\* The elements but the images and page numbers.
OdtRendered(elements) ==
  SelectSeq(elements, LAMBDA e : e.type \notin {"image", "pageNumber"})

\* C19: the content.xml of a built ODT document, body and automatic styles,
\* is the content.xml of the same elements with the images and page numbers
\* removed, and the archive holds the four entries of every ODT document and
\* no entry for an image.
C19_OdtIgnoresImages ==
  OdtBuilt =>
    /\ FileXml(ret.files, NameContent) = generateOdtContent(OdtRendered(odtCtx.ctx.elements))
    /\ [k \in 1..Len(ret.files) |-> ret.files[k].name]
         = <<NameMimetype, NameManifest, NameContent, NameOdtStyles>>
    /\ ZipHolds(ret.zip, 4)

\* A document of a styled paragraph, an image and a sized text has been
\* built: the text is under the second style.
C19_Witness ==
  /\ OdtBuilt
  /\ [k \in 1..Len(odtCtx.ctx.elements) |-> odtCtx.ctx.elements[k].type]
       = <<"paragraph", "image", "text">>
  /\ FileXml(ret.files, NameContent).body[2].style = <<"P", "2">>

(***************************************************************************)
(* Automatic styles of an ODT document                                     *)
(***************************************************************************)
RunFormatKeys == {"bold", "italic", "color", "font", "underline", "strikethrough", "code"}
ParagraphFormatKeys == RunFormatKeys \cup {"align"}

\* The attribute of an automatic style that carries an option.
FormatAttr(k) ==
  CASE k = "bold" -> "fo:font-weight"
    [] k = "italic" -> "fo:font-style"
    [] k = "color" -> "fo:color"
    [] k = "font" -> "style:font-name"
    [] k = "underline" -> "style:text-underline-style"
    [] k = "strikethrough" -> "style:text-line-through-style"
    [] k = "code" -> "fo:background-color"
    [] k = "align" -> "fo:text-align"

\* The attributes a style:style element carries.
StyleAttrs(st) ==
  {st.textProps[k].a : k \in 1..Len(st.textProps)}
    \cup (IF "pProps" \in DOMAIN st /\ ToString(st.pProps) # ToString(Undefined)
          THEN {"fo:text-align"} ELSE {})

\* The style names are compared as the text of the attribute.
UsesStandard(node) == "style" \in DOMAIN node /\ ToString(node.style) = ToString("Standard")

\* node refers to a style of the automatic-styles block of content that
\* carries the attribute of each option in keys.
RefersToStyle(content, node, keys) ==
  /\ "style" \in DOMAIN node
  /\ ~UsesStandard(node)
  /\ ToString(content.autoStyles) # ToString(Undefined)
  /\ \E k \in 1..Len(content.autoStyles) :
       /\ content.autoStyles[k].name = node.style
       /\ \A key \in keys : FormatAttr(key) \in StyleAttrs(content.autoStyles[k])

\* A paragraph, sized text or run has been rendered to ODT.
OdtRenderedOne(type) ==
  /\ call.fn = "generateOdtContent" /\ "element" \in DOMAIN call
  /\ call.element.type = type
  /\ ret # None

\* C20: a paragraph, a sized text or a run whose options set any of bold,
\* italic, color, font, underline, strikethrough, code or, for a paragraph,
\* align refers to an automatic style, written in the automatic-styles
\* block, that carries the attribute of each option set; a paragraph with
\* none of them has the Standard style and a run with none of them is bare
\* text.
C20_OdtAutomaticStyles ==
  /\ OdtRenderedOne("paragraph") =>
       LET keys == (DOMAIN call.element.opts) \cap ParagraphFormatKeys
           node == ret.content.body[1]
       IN IF keys # {} THEN RefersToStyle(ret.content, node, keys) ELSE UsesStandard(node)
  /\ OdtRenderedOne("text") =>
       RefersToStyle(ret.content, ret.content.body[1],
                     (DOMAIN call.element.opts) \cap ParagraphFormatKeys)
  /\ OdtRenderedOne("richParagraph") =>
       LET keys == (DOMAIN call.element.runs[1].opts) \cap RunFormatKeys
           node == ret.content.body[1].content[1]
       IN IF keys # {} THEN RefersToStyle(ret.content, node, keys) ELSE node.x = "#text"

(***************************************************************************)
(* SpecBuilders: several docx() and odt() builders alive at once.  Each    *)
(* closure variable of docx() is held once for each builder, in the order  *)
(* the builders were created, and so is the context of odt(); call.applied *)
(* and call.appliedOdt keep the calls made on each builder.                *)
(***************************************************************************)
MaxBuilders == 2       \* docx() calls, and odt() calls
MaxBuilderCalls == 2   \* content(), header() and footer() calls, over all builders

\* The callbacks handed to content(), header() and footer().
SharedCallbacks ==
  {<<[m |-> "image", data |-> PngData, opts |-> [width |-> 1, height |-> 2]]>>,
   <<[m |-> "link", text |-> <<"t">>, url |-> <<"u">>, opts |-> NoOpts]>>}

\* The text of a markdownToDocx call made between the calls on the builders.
SharedMarkdown == <<"[", "a", "]", "(", "u", ")">>

NumBuilders == Len(mainCtx)

\* The closure variables of builder b, as one record.
BuilderAt(b) ==
  [mainCtx |-> mainCtx[b], headerCtx |-> headerCtx[b], footerCtx |-> footerCtx[b],
   docPrIdCounter |-> docPrIdCounter[b], hasHeader |-> hasHeader[b],
   hasFooter |-> hasFooter[b]]

\* A write that reaches the variable of every builder.
BuilderSetShared(f, b, v) == [x \in DOMAIN f |-> v]

\* A write to a closure variable of builder b: the closures of the other
\* builders hold variables of their own.
BuilderSet(f, b, v) == [f EXCEPT ![b] = v]

\* content(fn), header(fn) or footer(fn) on the closure variables br, with
\* the calls ops that fn makes.
builderPart(br, part, ops) ==
  LET name == CASE part = "content" -> "mainCtx"
                [] part = "header" -> "headerCtx"
                [] part = "footer" -> "footerCtx"
      r == runCallback(br[name], br.docPrIdCounter, ops)
  IN [[br EXCEPT ![name] = r.ctx] EXCEPT
        !.docPrIdCounter = r.docPr,
        !.hasHeader = (@ \/ part = "header"),
        !.hasFooter = (@ \/ part = "footer")]

\* The first docx() has returned its builder.
InitBuilders ==
  /\ call = [fn |-> "docx", applied |-> <<<<>>>>, appliedOdt |-> <<>>]
  /\ ret = RetBuilder
  /\ mainCtx = <<docxNew.mainCtx>>
  /\ headerCtx = <<docxNew.headerCtx>>
  /\ footerCtx = <<docxNew.footerCtx>>
  /\ docPrIdCounter = <<docxNew.docPrIdCounter>>
  /\ hasHeader = <<docxNew.hasHeader>>
  /\ hasFooter = <<docxNew.hasFooter>>
  /\ odtCtx = <<>>

\* docx(), once more
NewDocx ==
  /\ NumBuilders < MaxBuilders
  /\ mainCtx' = Append(mainCtx, docxNew.mainCtx)
  /\ headerCtx' = Append(headerCtx, docxNew.headerCtx)
  /\ footerCtx' = Append(footerCtx, docxNew.footerCtx)
  /\ docPrIdCounter' = Append(docPrIdCounter, docxNew.docPrIdCounter)
  /\ hasHeader' = Append(hasHeader, docxNew.hasHeader)
  /\ hasFooter' = Append(hasFooter, docxNew.hasFooter)
  /\ call' = [call EXCEPT !.applied = Append(@, <<>>)]
  /\ ret' = RetBuilder
  /\ UNCHANGED odtCtx

\* The calls made so far, on all builders.
NumBuilderCalls ==
  SumSeq([k \in 1..NumBuilders |-> Len(call.applied[k])])
    + SumSeq([k \in 1..Len(odtCtx) |-> Len(call.appliedOdt[k])])

\* content(fn), header(fn) or footer(fn) of builder b
BuilderCall(b, part, ops) ==
  /\ NumBuilderCalls < MaxBuilderCalls
  /\ LET br == builderPart(BuilderAt(b), part, ops)
     IN /\ mainCtx' = BuilderSet(mainCtx, b, br.mainCtx)
        /\ headerCtx' = BuilderSet(headerCtx, b, br.headerCtx)
        /\ footerCtx' = BuilderSet(footerCtx, b, br.footerCtx)
        /\ docPrIdCounter' = BuilderSet(docPrIdCounter, b, br.docPrIdCounter)
        /\ hasHeader' = BuilderSet(hasHeader, b, br.hasHeader)
        /\ hasFooter' = BuilderSet(hasFooter, b, br.hasFooter)
  /\ call' = [call EXCEPT !.applied[b] = Append(@, [part |-> part, ops |-> ops])]
  /\ ret' = RetBuilder
  /\ UNCHANGED odtCtx

BuilderContent(b, ops) == BuilderCall(b, "content", ops)
BuilderHeader(b, ops) == BuilderCall(b, "header", ops)
BuilderFooter(b, ops) == BuilderCall(b, "footer", ops)

\* build() of builder b
BuilderBuild(b, xmlText) ==
  /\ ret' = [builder |-> b, built |-> Built(docxFiles(BuilderAt(b)), xmlText)]
  /\ UNCHANGED <<call, builderVars>>

\* odt()
NewOdt ==
  /\ Len(odtCtx) < MaxBuilders
  /\ odtCtx' = Append(odtCtx, odtNew)
  /\ call' = [call EXCEPT !.appliedOdt = Append(@, <<>>)]
  /\ ret' = RetBuilder
  /\ UNCHANGED <<mainCtx, headerCtx, footerCtx, docPrIdCounter, hasHeader, hasFooter>>

\* content(fn) of the odt() builder b
OdtBuilderContent(b, ops) ==
  /\ NumBuilderCalls < MaxBuilderCalls
  /\ odtCtx' = BuilderSet(odtCtx, b, runCallback(odtCtx[b].ctx, odtCtx[b].docPr, ops))
  /\ call' = [call EXCEPT !.appliedOdt[b] = Append(@, ops)]
  /\ ret' = RetBuilder
  /\ UNCHANGED <<mainCtx, headerCtx, footerCtx, docPrIdCounter, hasHeader, hasFooter>>

\* build() of the odt() builder b
OdtBuilderBuild(b, xmlText) ==
  /\ ret' = [odt |-> b, built |-> Built(odtFiles(odtCtx[b].ctx.elements), xmlText)]
  /\ UNCHANGED <<call, builderVars>>

\* markdownToDocx(md), between the calls on the builders
BuilderMarkdownToDocx(xmlText) ==
  /\ ret' = [markdown |-> markdownToDocx(SharedMarkdown, xmlText)]
  /\ UNCHANGED <<call, builderVars>>

NextBuilders ==
  \/ NewDocx
  \/ \E b \in 1..NumBuilders, ops \in SharedCallbacks : BuilderContent(b, ops)
  \/ \E b \in 1..NumBuilders, ops \in SharedCallbacks : BuilderHeader(b, ops)
  \/ \E b \in 1..NumBuilders, ops \in SharedCallbacks : BuilderFooter(b, ops)
  \/ \E b \in 1..NumBuilders : BuilderBuild(b, <<"<">>)
  \/ NewOdt
  \/ \E b \in 1..Len(odtCtx), ops \in SharedCallbacks : OdtBuilderContent(b, ops)
  \/ \E b \in 1..Len(odtCtx) : OdtBuilderBuild(b, <<"<">>)
  \/ BuilderMarkdownToDocx(<<"<">>)

SpecBuilders == InitBuilders /\ [][NextBuilders]_vars

\* The closure variables of a builder after the calls of log, made on a
\* builder that docx() has just returned.
RECURSIVE BuilderAfter(_, _)
BuilderAfter(log, br) ==
  IF log = <<>> THEN br
  ELSE BuilderAfter(Tail(log), builderPart(br, log[1].part, log[1].ops))

\* The context of an odt() builder after the callbacks of log.
RECURSIVE OdtAfter(_, _)
OdtAfter(log, cx) ==
  IF log = <<>> THEN cx ELSE OdtAfter(Tail(log), runCallback(cx.ctx, cx.docPr, log[1]))

BuilderBuilt ==
  /\ call.fn = "docx" /\ "applied" \in DOMAIN call
  /\ "built" \in DOMAIN ret /\ "builder" \in DOMAIN ret

OdtBuilderBuilt ==
  /\ call.fn = "docx" /\ "applied" \in DOMAIN call
  /\ "built" \in DOMAIN ret /\ "odt" \in DOMAIN ret

\* C21: what a builder builds depends only on the calls made on it: the
\* archive is the one a builder just created builds after the same calls
\* and no others, whatever was done on other builders and whatever
\* markdownToDocx calls were made in between; so the relationship ids and
\* drawing ids of every builder start from the same values.
C21_BuildersIndependent ==
  /\ BuilderBuilt =>
       ret.built = Built(docxFiles(BuilderAfter(call.applied[ret.builder], docxNew)), <<"<">>)
  /\ OdtBuilderBuilt =>
       ret.built = Built(odtFiles(OdtAfter(call.appliedOdt[ret.odt], odtNew).ctx.elements),
                         <<"<">>)

\* Both builders were given an image, the second after the first, and the
\* second has been built: its image has the drawing id 1 and the
\* relationship id rId10.
C21_Witness ==
  /\ BuilderBuilt
  /\ ret.builder = 2
  /\ Len(call.applied[1]) = 1 /\ call.applied[1][1].ops[1].m = "image"
  /\ Len(mainCtx[2].images) = 1
  /\ mainCtx[2].elements[1].docPrId = 1
  /\ mainCtx[2].elements[1].rId = rIdOf(10)


(***************************************************************************)
(* Markdown links in the converted documents                               *)
(***************************************************************************)
\* A markdown conversion has returned an archive.
MarkdownBuilt == call.fn \in {"markdownToDocx", "markdownToOdt"} /\ "files" \in DOMAIN ret

\* The runs of the paragraphs of a document that carry a link target.
LinkedRuns(elements) ==
  SelectSeq(Flatten([k \in 1..Len(elements) |->
                       IF elements[k].type = "richParagraph" THEN elements[k].runs ELSE <<>>]),
            LAMBDA r : "link" \in DOMAIN r)

\* The DOCX package holds an external hyperlink relationship to url that a
\* w:hyperlink of the document refers to.
DocxHoldsLink(files, url) ==
  LET rels == FileXml(files, NameDocumentRels).rels
      links == BodyChildren(FileXml(files, NameDocument).body, "w:hyperlink")
  IN \E i \in 1..Len(rels) :
       /\ rels[i].Type = "hyperlink"
       /\ rels[i].Target = escapeXml(url)
       /\ rels[i].TargetMode = "External"
       /\ \E j \in 1..Len(links) : links[j].rId = rels[i].Id

\* The ODT content holds a text:a whose xlink:href is url.
OdtHoldsLink(files, url) ==
  LET body == FileXml(files, NameContent).body
  IN \E i \in 1..Len(body) :
       /\ body[i].x = "text:p"
       /\ \E j \in 1..Len(body[i].content) :
            /\ body[i].content[j].x = "text:a"
            /\ body[i].content[j].href = escapeXml(url)

\* What C22 asks of the linked runs of the elements a conversion worked on.
LinksKept(runs) ==
  \A k \in 1..Len(runs) :
    IF call.fn = "markdownToDocx" THEN DocxHoldsLink(ret.files, runs[k].link)
    ELSE OdtHoldsLink(ret.files, runs[k].link)

\* C22: a markdown link [text](url) of a paragraph is converted into a
\* hyperlink: the runs flattened from it carry url as their link target, the
\* package markdownToDocx returns holds an external hyperlink relationship
\* with target url that the document refers to, and the content markdownToOdt
\* returns holds an xlink:href with url.
C22_MarkdownLinkKept ==
  MarkdownBuilt => LinksKept(LinkedRuns(parseMarkdownToElements(call.arg).elements))


(***************************************************************************)
(* Emphasis with an empty interior                                         *)
(***************************************************************************)
\* "****", "____" and "~~~~"
EmptyEmphasis ==
  {<<"*", "*", "*", "*">>, <<"_", "_", "_", "_">>, <<"~", "~", "~", "~">>}

\* No bold, italic or strike token of the tokens, at any depth, has zero
\* children.
RECURSIVE NoEmptyEmphasis(_)
NoEmptyEmphasis(tokens) ==
  \A k \in 1..Len(tokens) :
    /\ tokens[k].tag \in {"bold", "italic", "strike"} => Len(tokens[k].children) > 0
    /\ "children" \in DOMAIN tokens[k] => NoEmptyEmphasis(tokens[k].children)

\* C23: the inline parser makes no bold, italic or strike token with zero
\* children, and "****", "____" and "~~~~" alone come out as one unstyled run
\* of the marker characters.
C23_EmptyEmphasisLiteral ==
  /\ (call.fn = "parseInline" /\ ret # None) => NoEmptyEmphasis(ret.tokens)
  /\ (RunsMade /\ call.arg \in EmptyEmphasis) =>
       ret.runs = <<[text |-> call.arg, opts |-> NoOpts]>>


(***************************************************************************)
(* The content of a block quote                                            *)
(***************************************************************************)
\* The text a block holds: of its inline content, its code, its items in
\* document order, its cells, or the blocks of a quote.
RECURSIVE BlockText(_)
BlockText(b) ==
  CASE b.tag \in {"h", "p"} -> tokensToPlainText(b.content)
    [] b.tag = "pre" -> b.code
    [] b.tag = "hr" -> <<>>
    [] b.tag = "quote" -> Flatten([k \in 1..Len(b.blocks) |-> BlockText(b.blocks[k])])
    [] b.tag \in {"ul", "ol"} ->
         LET items == ItemsPreorder(b.items, b.tag = "ol", 0)
         IN Flatten([k \in 1..Len(items) |-> tokensToPlainText(items[k].content)])
    [] b.tag = "table" ->
         LET cells == b.head \o Flatten(b.body)
         IN Flatten([k \in 1..Len(cells) |-> tokensToPlainText(cells[k])])

\* The text of the runs of an element.
RunsText(el) == Flatten([k \in 1..Len(el.runs) |-> el.runs[k].text])

\* C24: the block-quote element astToElements makes of a quote holds the
\* content of every child block of the quote, in order: none is dropped.
C24_QuoteKeepsBlocks ==
  (BlockParsed /\ ~ret.threw) =>
    \A k \in 1..Len(ret.blocks) :
      ret.blocks[k].tag = "quote" =>
        LET els == blockToElement(ret.blocks[k])
        IN /\ Len(els) = 1
           /\ els[1].type = "blockquote"
           /\ RunsText(els[1]) = BlockText(ret.blocks[k])


(***************************************************************************)
(* The marker lines of a list                                              *)
(***************************************************************************)
\* The items of the lists among the blocks, in document order.
ListItemsOf(blocks) ==
  Flatten([k \in 1..Len(blocks) |->
             IF blocks[k].tag \in {"ul", "ol"}
             THEN ItemsPreorder(blocks[k].items, blocks[k].tag = "ol", 0)
             ELSE <<>>])

\* C25: no list-marker line inside a list is discarded: when every line is a
\* list-marker line, each line becomes an item, of the list or of a sub-list
\* below the preceding item, and the items in document order are the lines.
C25_MarkerLinesKept ==
  (BlockParsed /\ ~ret.threw /\ \A k \in 1..Len(call.arg) : IsMarkerLine(call.arg[k])) =>
    LET items == ListItemsOf(ret.blocks)
    IN [k \in 1..Len(items) |-> items[k].content]
         = [k \in 1..Len(call.arg) |-> parseInlineTokens(StripMarker(call.arg[k]))]


(***************************************************************************)
(* Unmatched delimiters                                                    *)
(***************************************************************************)
\* The characters of plain text.
PlainChars == {"a", " "}

\* The opening delimiters: *, **, _, __, ~~, `, [ and ![
OpeningDelims ==
  {<<"*">>, <<"*", "*">>, <<"_">>, <<"_", "_">>, <<"~", "~">>, <<"U+0060">>, <<"[">>,
   <<"!", "[">>}

\* The text is plain text around one opening delimiter, or plain text and a
\* trailing backslash: no delimiter in it has a matching close.
Unmatched(text) ==
  \/ \E d \in OpeningDelims : \E k \in 0..(Len(text) - Len(d)) :
       /\ SubSeq(text, k + 1, k + Len(d)) = d
       /\ \A j \in (1..k) \cup ((k + Len(d) + 1)..Len(text)) : text[j] \in PlainChars
  \/ /\ Len(text) > 0
     /\ text[Len(text)] = "\\"
     /\ \A j \in 1..(Len(text) - 1) : text[j] \in PlainChars

\* C26: for an input made of plain text and one opening delimiter without a
\* matching close, or a trailing backslash, parseInline returns exactly one
\* unstyled run whose text is the input unchanged.
C26_UnmatchedLiteral ==
  (RunsMade /\ Unmatched(call.arg)) =>
    ret.runs = <<[text |-> call.arg, opts |-> NoOpts]>>

\* "a**a", "![a", "`a" and "a\" have come out as one unstyled run each.
C26_Witness ==
  /\ RunsMade
  /\ Unmatched(call.arg)
  /\ call.arg \in {<<"a", "*", "*", "a">>, <<"!", "[", "a">>, <<"U+0060", "a">>, <<"a", "\\">>}
  /\ Len(ret.tokens) > 1
  /\ ret.runs = <<[text |-> call.arg, opts |-> NoOpts]>>


(***************************************************************************)
(* SpecPictures: a docx() builder whose callbacks embed images of the four *)
(* formats detectImageType tells apart                                     *)
(***************************************************************************)
GifData == <<71, 73, 70>>
WebpData == Riff \o <<0, 0, 0, 0>> \o Webp

PictureData == {PngData, JpegData, GifData, WebpData}

\* The callbacks: one that embeds one image, and one that makes no call.
PictureCallbacks ==
  {<<>>} \cup {<<[m |-> "image", data |-> d, opts |-> [width |-> 1, height |-> 1]]>> :
                 d \in PictureData}

NextPictures ==
  \/ \E ops \in PictureCallbacks : DocxContent(ops)
  \/ \E ops \in PictureCallbacks : DocxHeader(ops)
  \/ \E ops \in PictureCallbacks : DocxFooter(ops)
  \/ DocxBuild(<<"<">>)

SpecPictures == InitDocx /\ [][NextPictures]_vars

\* The MIME type of an image format.
FormatMime(ext) ==
  CASE ext = <<"p", "n", "g">> -> "image/png"
    [] ext = <<"j", "p", "e", "g">> -> "image/jpeg"
    [] ext = <<"g", "i", "f">> -> "image/gif"
    [] ext = <<"w", "e", "b", "p">> -> "image/webp"

\* The images of the three parts of the builder.
AllImages == mainCtx.images \o headerCtx.images \o footerCtx.images

\* The Default entries of [Content_Types].xml but those of rels and xml.
ImageDefaults(files) ==
  SelectSeq(FileXml(files, NameContentTypes).defaults,
            LAMBDA d : d.Extension \notin {<<"r", "e", "l", "s">>, <<"x", "m", "l">>})

\* C27: [Content_Types].xml of a built package declares exactly one Default
\* entry for each distinct extension detected among the embedded images, and
\* none else, and the content type of the entry is the MIME type of the
\* format: image/png, image/jpeg, image/gif, image/webp.
C27_ImageContentTypes ==
  DocxBuilt =>
    LET defaults == ImageDefaults(ret.files)
    IN /\ \A i \in 1..Len(AllImages) :
            Cardinality({k \in 1..Len(defaults) :
                           defaults[k].Extension = detectImageType(AllImages[i].data)}) = 1
       /\ \A k \in 1..Len(defaults) :
            /\ \E i \in 1..Len(AllImages) :
                 defaults[k].Extension = detectImageType(AllImages[i].data)
            /\ defaults[k].ContentType = FormatMime(defaults[k].Extension)


(***************************************************************************)
(* The relationships and media entries of the images                       *)
(***************************************************************************)
\* The archive holds the entry word/<target> with the bytes data.
MediaHolds(files, target, data) ==
  \E k \in 1..Len(files) :
    /\ files[k].name = <<"w", "o", "r", "d", "/">> \o target
    /\ "data" \in DOMAIN files[k]
    /\ files[k].data = data

\* The relationship file of a part has exactly one relationship with the Id
\* of the image element, an image relationship whose target is a media entry
\* of the archive that holds the bytes of the element.
ImageResolves(files, relsName, el) ==
  /\ HasFile(files, relsName)
  /\ LET rels == FileXml(files, relsName).rels
         at == {i \in 1..Len(rels) : rels[i].Id = el.rId}
     IN /\ Cardinality(at) = 1
        /\ \A i \in at :
             /\ rels[i].Type = "image"
             /\ SubSeq(rels[i].Target, 1, 11)
                  = <<"m", "e", "d", "i", "a", "/", "i", "m", "a", "g", "e">>
             /\ MediaHolds(files, rels[i].Target, el.data)

\* C28: in a built package, for every image element of every part, the
\* relationship with the element's Id in the part's own relationship file
\* targets media/imageK.<ext>, the archive holds word/media/imageK.<ext>, and
\* the bytes of that entry are the data passed to the image() call.
C28_ImagesResolve ==
  DocxBuilt =>
    \A p \in 1..3 :
      LET els == ElementsOfType(DocxParts[p].ctx.elements, "image")
      IN \A k \in 1..Len(els) : ImageResolves(ret.files, DocxParts[p].rels, els[k])

\* A package has been built with an image in each of the three parts, of
\* three formats, each resolving to its own bytes.
C28_Witness ==
  /\ DocxBuilt
  /\ \A p \in 1..3 :
       /\ Len(DocxParts[p].ctx.images) = 1
       /\ ImageResolves(ret.files, DocxParts[p].rels,
                        ElementsOfType(DocxParts[p].ctx.elements, "image")[1])
  /\ Cardinality({DocxParts[p].ctx.images[1].ext : p \in 1..3}) = 3


(***************************************************************************)
(* The four places that describe the header, and the footer                *)
(***************************************************************************)
\* Whether each of the four places describes the part: the archive entry,
\* the content-type Override, the relationship of the document and the
\* reference in the section properties of the document.
PartPlaces(files, name, override, rId, relType, reference) ==
  LET overrides == FileXml(files, NameContentTypes).overrides
      rels == FileXml(files, NameDocumentRels).rels
      sectPr == FileXml(files, NameDocument).sectPr
  IN <<HasFile(files, name),
       \E k \in 1..Len(overrides) : overrides[k] = override,
       \E k \in 1..Len(rels) : rels[k].Id = rId /\ rels[k].Type = relType,
       \E k \in 1..Len(sectPr) : sectPr[k].x = reference /\ sectPr[k].rId = rId>>

HeaderPlaces(files) ==
  PartPlaces(files, NameHeader, "/word/header1.xml",
             <<"r", "I", "d", "H", "e", "a", "d", "e", "r">>, "header", "w:headerReference")

FooterPlaces(files) ==
  PartPlaces(files, NameFooter, "/word/footer1.xml",
             <<"r", "I", "d", "F", "o", "o", "t", "e", "r">>, "footer", "w:footerReference")

AllPresent == <<TRUE, TRUE, TRUE, TRUE>>
AllAbsent == <<FALSE, FALSE, FALSE, FALSE>>

\* C29: in every archive built by docx(), the entry word/header1.xml, the
\* content-type Override for /word/header1.xml, the relationship rIdHeader of
\* the document and the w:headerReference with r:id rIdHeader are all present
\* or all absent; likewise for the footer with rIdFooter and word/footer1.xml.
C29_HeaderPlacesAgree ==
  DocxBuilt =>
    /\ HeaderPlaces(ret.files) \in {AllPresent, AllAbsent}
    /\ FooterPlaces(ret.files) \in {AllPresent, AllAbsent}

\* A package has been built after footer() and without header(): the four
\* places of the footer are present, those of the header absent.
C29_Witness ==
  /\ DocxBuilt
  /\ hasFooter /\ ~hasHeader
  /\ FooterPlaces(ret.files) = AllPresent
  /\ HeaderPlaces(ret.files) = AllAbsent


(***************************************************************************)
(* Numbering referred to by the parts of a package                         *)
(***************************************************************************)
\* The body of a part holds a paragraph that refers to a numbering id.
RefersToNumbering(b) ==
  \E k \in 1..Len(b) : "pPr" \in DOMAIN b[k] /\ "numPr" \in DOMAIN b[k].pPr

\* The package defines the numbering: word/numbering.xml, its content-type
\* override and the numbering relationship of the document.
DefinesNumbering(files) ==
  LET overrides == FileXml(files, NameContentTypes).overrides
  IN /\ HasFile(files, NameNumbering)
     /\ \E k \in 1..Len(overrides) : overrides[k] = "/word/numbering.xml"
     /\ Len(RelsOfType(FileXml(files, NameDocumentRels).rels, "numbering")) = 1

\* C30: whenever document.xml, header1.xml or footer1.xml of a package built
\* by docx() or markdownToDocx holds a list paragraph referring to a
\* numbering id, the package holds word/numbering.xml, its content-type
\* override and its relationship.
C30_NumberingDefined ==
  DocxArchive =>
    \A name \in {NameDocument, NameHeader, NameFooter} :
      (HasFile(ret.files, name) /\ RefersToNumbering(FileXml(ret.files, name).body))
        => DefinesNumbering(ret.files)

====
